---- MODULE Spec2Model ----
(***************************************************************************)
(* State-machine model of the DragonFly-derived slab allocator in          *)
(* src/lib/libc/stdlib/nmalloc.c: size classification, the slab core, the  *)
(* per-thread magazine layer with its depot, the zone magazine, the        *)
(* bigalloc hash table with the bigcache, and the public entry points.     *)
(*                                                                         *)
(* Every thread runs the C functions as a stack of frames; a frame's pc    *)
(* names the source line the thread is about to execute.  One step of a    *)
(* thread is one access to shared state (a lock acquisition, a critical    *)
(* section up to its unlock, an atomic swap, an unlocked read, an          *)
(* mmap/munmap) together with the thread-local computation around it.      *)
(*                                                                         *)
(* Memory is modelled by byte addresses: `maps` is the set of mapped       *)
(* intervals handed out by the page provider, `mem` the set of intervals   *)
(* whose bytes are not zero (each with the tag of the data written there). *)
(***************************************************************************)
EXTENDS Integers, Sequences, FiniteSets, TLC

(***************************************************************************)
(* Program constants                                                       *)
(***************************************************************************)
PAGE_SIZE == 4096
PAGE_SHIFT == 12
PAGE_MASK == PAGE_SIZE - 1
MAX_SLAB_PAGEALIGN == 2 * PAGE_SIZE
ZALLOC_ZONE_LIMIT == 16384
ZALLOC_ZONE_SIZE == 65536
ZALLOC_SLAB_MAGIC == 1936482658
NZONES == 72
SLZF_UNOTZEROD == 1
BIGHSHIFT == 10
BIGHSIZE == 2 ^ BIGHSHIFT
BIGHMASK == BIGHSIZE - 1
BIGXSIZE == BIGHSIZE \div 16
BIGXMASK == BIGXSIZE - 1
BIGCACHE == 16
BIGCACHE_MASK == BIGCACHE - 1
BIGCACHE_LIMIT == 1048576
BIGCACHE_EXCESS == 16777216
CACHE_CHUNKS == 32
M_MAX_ROUNDS == 509
M_MIN_ROUNDS == 16
M_ZONE_INIT_ROUNDS == 64
M_ZONE_HYSTERESIS == 32
ZoneSize == ZALLOC_ZONE_SIZE
ZoneLimit == ZALLOC_ZONE_LIMIT
ZonePageCount == ZALLOC_ZONE_SIZE \div PAGE_SIZE
ZoneMask == ZALLOC_ZONE_SIZE - 1
EINVAL == 22
ENOMEM == 12
NULL == 0

\* sizeof(struct slzone), sizeof(struct magazine), sizeof(struct bigalloc),
\* sizeof(void *) and sizeof(struct slchunk) on the LP64 target.
SizeofSlzone == 184
SizeofMagazine == 4096
SizeofBigalloc == 32
SizeofPtr == 8

(***************************************************************************)
(* Bounds of the model                                                     *)
(***************************************************************************)
\* size_t is modelled with SizeBits bits (TLC integers are 32-bit).
SizeBits == 28
\* The page provider hands out addresses in [AddrBase, AddrBase + AddrPages pages).
AddrPages == 16384
\* Public calls a thread makes in one behaviour.
MaxOps == 3

SizeMod == 2 ^ SizeBits
AddrBase == ZALLOC_ZONE_SIZE
AddrTop == AddrBase + AddrPages * PAGE_SIZE

(***************************************************************************)
(* Integer helpers: the C expressions on size_t, computed bit by bit       *)
(***************************************************************************)
Min(a, b) == IF a < b THEN a ELSE b
Max(a, b) == IF a > b THEN a ELSE b

RECURSIVE BitOr(_, _)
BitOr(a, b) ==
    IF a = 0 THEN b
    ELSE IF b = 0 THEN a
    ELSE (IF (a % 2 = 1) \/ (b % 2 = 1) THEN 1 ELSE 0) + 2 * BitOr(a \div 2, b \div 2)

RECURSIVE BitXor(_, _)
BitXor(a, b) ==
    IF a = 0 THEN b
    ELSE IF b = 0 THEN a
    ELSE (IF (a % 2) # (b % 2) THEN 1 ELSE 0) + 2 * BitXor(a \div 2, b \div 2)

\* x & ~m for a mask m = 2^k - 1
AndNotMask(x, m) == x - (x % (m + 1))

\* (x + m) & ~(size_t)m on size_t
RoundUpMask(x, m) == AndNotMask((x + m) % SizeMod, m)

\* A test that lets every value pass.
IsPow2Lax(x) == TRUE

\* (x | (x - 1)) + 1 == (x << 1) on size_t: x is a power of two
IsPow2(x) ==
    (BitOr(x, (x + SizeMod - 1) % SizeMod) + 1) % SizeMod = (2 * x) % SizeMod

\* roundup2(x, y) for a power of two y
roundup2(x, y) == AndNotMask(x + (y - 1), y - 1)

(***************************************************************************)
(* zoneindex(): zone index, rounded size and chunking of a request         *)
(* (zi = -1 stands for the _mpanic at the end of the function)             *)
(***************************************************************************)
\* A class that rounds the size down / whose index is one too high.
ZiResDown(n, c, base) ==
    LET r == AndNotMask(n, c - 1)
    IN  [zi |-> r \div c + base, bytes |-> r, chunking |-> c]

ZiResShifted(n, c, base) ==
    LET r == AndNotMask(n + (c - 1), c - 1)
    IN  [zi |-> r \div c + base + 1, bytes |-> r, chunking |-> c]

ZiRes(n, c, base) ==
    LET r == AndNotMask(n + (c - 1), c - 1)
    IN  [zi |-> r \div c + base, bytes |-> r, chunking |-> c]

zoneindex(bytes) ==
    LET n == bytes
    IN  IF n < 16 THEN ZiRes(n, 8, -1)
        ELSE IF n < 128 THEN ZiRes(n, 16, 2)
        ELSE IF n < 256 THEN ZiRes(n, 16, 7)
        ELSE IF n < 8192 THEN
            IF n < 512 THEN ZiRes(n, 32, 15)
            ELSE IF n < 1024 THEN ZiRes(n, 64, 23)
            ELSE IF n < 2048 THEN ZiRes(n, 128, 31)
            ELSE IF n < 4096 THEN ZiRes(n, 256, 39)
            ELSE ZiRes(n, 512, 47)
        ELSE IF n < 16384 THEN ZiRes(n, 1024, 55)
        ELSE [zi |-> -1, bytes |-> n, chunking |-> 0]

\* zonecapacity(): rounds of a magazine of class zi
zonecapacity(zi) ==
    ((NZONES - zi) * (M_MAX_ROUNDS - M_MIN_ROUNDS)) \div NZONES + M_MIN_ROUNDS

\* _bigalloc_hash(): unmasked hash code of a pointer
bigalloc_hash(ptr) ==
    BitXor(ptr \div (2 ^ PAGE_SHIFT), ptr \div (2 ^ (PAGE_SHIFT + BIGHSHIFT)))

BigBucket(ptr) == bigalloc_hash(ptr) % BIGHSIZE
BigStripe(ptr) == bigalloc_hash(ptr) % BIGXSIZE

\* The offset without the special case for power-of-two sizes.
ZoneOffChunking(size, chunking) == roundup2(SizeofSlzone, chunking)

\* Offset of the chunk array in a zone (nmalloc.c 1212-1242)
ZoneOff(size, chunking) ==
    IF IsPow2(size) THEN roundup2(SizeofSlzone, size)
    ELSE roundup2(SizeofSlzone, chunking)

(***************************************************************************)
(* Sparse maps (a key that is absent reads as NULL) and sequences          *)
(***************************************************************************)
Get(f, k) == IF k \in DOMAIN f THEN f[k] ELSE NULL
Put(f, k, v) == [x \in (DOMAIN f) \cup {k} |-> IF x = k THEN v ELSE f[x]]
Del(f, k) == [x \in (DOMAIN f) \ {k} |-> f[x]]
PutNZ(f, k, v) == IF v = NULL THEN Del(f, k) ELSE Put(f, k, v)
GetSeq(f, k) == IF k \in DOMAIN f THEN f[k] ELSE << >>
PutSeq(f, k, q) == IF q = << >> THEN Del(f, k) ELSE Put(f, k, q)
EmptyMap == << >>

SeqSet(q) == {q[i] : i \in 1..Len(q)}
SeqRemove(q, x) == SelectSeq(q, LAMBDA y : y # x)
\* The list that starts at the successor of x (the C expression x->next
\* stored as the new head); the empty list when x is not on the list.
RECURSIVE SeqAfter(_, _)
SeqAfter(q, x) ==
    IF q = << >> THEN << >>
    ELSE IF Head(q) = x THEN Tail(q)
    ELSE SeqAfter(Tail(q), x)

(***************************************************************************)
(* The page provider: mapped intervals [lo, hi) and non-zero bytes         *)
(***************************************************************************)
Overlaps(lo1, hi1, lo2, hi2) == lo1 < hi2 /\ lo2 < hi1

MapFree(M, lo, hi) ==
    /\ lo >= AddrBase
    /\ hi <= AddrTop
    /\ \A r \in M : ~Overlaps(r.lo, r.hi, lo, hi)

IvSub(M, lo, hi) ==
    UNION { (IF r.lo < lo /\ r.lo < Min(r.hi, lo)
                 THEN {[lo |-> r.lo, hi |-> Min(r.hi, lo)]} ELSE {})
            \cup
            (IF r.hi > hi /\ Max(r.lo, hi) < r.hi
                 THEN {[lo |-> Max(r.lo, hi), hi |-> r.hi]} ELSE {})
            : r \in M }

\* Bytes of `mem` outside [lo, hi): what bzero(lo, hi - lo) or munmap leaves.
MemSub(M, lo, hi) ==
    UNION { (IF r.lo < lo /\ r.lo < Min(r.hi, lo)
                 THEN {[lo |-> r.lo, hi |-> Min(r.hi, lo), tag |-> r.tag, off |-> r.off]}
                 ELSE {})
            \cup
            (IF r.hi > hi /\ Max(r.lo, hi) < r.hi
                 THEN {[lo |-> Max(r.lo, hi), hi |-> r.hi, tag |-> r.tag,
                        off |-> r.off + (Max(r.lo, hi) - r.lo)]}
                 ELSE {})
            : r \in M }

\* The byte at address a of a region r is byte (r.off + a - r.lo) of the data r.tag.
MemWrite(M, lo, hi, tag) ==
    IF hi > lo THEN MemSub(M, lo, hi) \cup {[lo |-> lo, hi |-> hi, tag |-> tag, off |-> 0]}
    ELSE M

bzero(M, ptr, n) == MemSub(M, ptr, ptr + n)

\* The content of [p, p + n), addresses relative to p.
MemRel(M, p, n) ==
    { [lo |-> Max(r.lo, p) - p, hi |-> Min(r.hi, p + n) - p, tag |-> r.tag,
       off |-> r.off + (Max(r.lo, p) - r.lo)]
      : r \in {x \in M : Overlaps(x.lo, x.hi, p, p + n)} }

bcopy(M, src, dst, n) ==
    MemSub(M, dst, dst + n) \cup
    { [lo |-> dst + r.lo, hi |-> dst + r.hi, tag |-> r.tag, off |-> r.off]
      : r \in MemRel(M, src, n) }

IsZero(M, lo, hi) == \A r \in M : ~Overlaps(r.lo, r.hi, lo, hi)

\* Tag of allocator metadata written in band (free-list links, magazines, records).
MetaTag == 0

SetMin(A) == CHOOSE x \in A : \A y \in A : x <= y

\* Lowest free address >= from that fits n bytes (0: none).
FirstFit(M, n, from) ==
    LET cands == {from} \cup {r.hi : r \in {x \in M : x.hi > from}}
        fits == {c \in cands : MapFree(M, c, c + n)}
    IN  IF fits = {} THEN 0 ELSE SetMin(fits)

\* mmap(hint, n, MAP_PRIVATE|MAP_ANON): the kernel picks the place.  `how` is
\* the kernel's choice: "lo" the lowest fit, "skew" the lowest fit one page
\* further up, "hint" the hinted address when it is free, "fail" MAP_FAILED.
\* A length of 0 is refused (EINVAL).
MmapPlace(M, hint, n, how) ==
    LET lo == FirstFit(M, n, AddrBase)
    IN  IF how = "fail" \/ n = 0 \/ lo = 0 THEN 0
        ELSE IF how = "hint" /\ hint # 0 /\ MapFree(M, hint, hint + n) THEN hint
        ELSE IF how = "skew" THEN FirstFit(M, n, lo + PAGE_SIZE)
        ELSE lo

Mmap(M, a, n) == M \cup {[lo |-> a, hi |-> a + n]}
Munmap(M, a, n) == IvSub(M, a, a + n)

\* _vmem_alloc(size, align): o.m1, o.m2, o.m3 are the kernel's choices for the
\* three mmap calls.  addr_hint only steers the kernel's choice and is covered
\* by o.m1.  The result is [maps, addr] with addr = NULL on failure.
vmem_alloc(M, size, align, o) ==
    LET save1 == MmapPlace(M, 0, size, o.m1)
        hint == AndNotMask(save1 + (align - 1), align - 1)
        save2 == IF save1 = 0 THEN 0 ELSE MmapPlace(M, hint, size, o.m2)
        save3 == MmapPlace(M, 0, size + align, o.m3)
        addr == AndNotMask(save3 + (align - 1), align - 1)
        M3 == Mmap(M, save3, size + align)
        M3a == IF save3 # addr THEN Munmap(M3, save3, addr - save3) ELSE M3
        M3b == IF addr + size # save3 + size + align
               THEN Munmap(M3a, addr + size, save3 + align - addr) ELSE M3a
    IN  IF save1 # 0 /\ save1 % align = 0 THEN [maps |-> Mmap(M, save1, size), addr |-> save1]
        ELSE IF save2 # 0 /\ save2 % align = 0 THEN [maps |-> Mmap(M, save2, size), addr |-> save2]
        ELSE IF save3 = 0 THEN [maps |-> M, addr |-> NULL]
        ELSE [maps |-> M3b, addr |-> addr]

(***************************************************************************)
(* State                                                                   *)
(***************************************************************************)
VARIABLES
    g_malloc_flags,       \* {} or {"ZERO"} (MALLOC_OPTIONS Z)
    isthreaded,           \* __isthreaded
    locks,                \* lock -> owning thread, for the locks that are held
    ZoneAry,              \* SLGlobalData.ZoneAry: zone index -> first zone
    zone,                 \* zone address -> zone header (struct slzone)
    zone_magazine,        \* the magazine of free zones
    depots,               \* zone index -> [full, empty] magazine lists
    mag,                  \* magazine address -> [capacity, objs]
    thread_mags,          \* thread -> [mags, newmag, init]
    bigalloc_array,       \* hash bucket -> chain of bigalloc records
    bigrec,               \* record address -> [base, active, bytes]
    bigcache_array,       \* slot -> parked record
    bigcache_size_array,  \* slot -> size hint
    bigcache_index,
    excess_alloc,
    malloc_panic,         \* _mpanic() was called: the process aborted
    maps,                 \* mapped intervals
    mem,                  \* non-zero bytes
    stk,                  \* thread -> stack of frames (top first)
    res,                  \* thread -> the last public call and its result
    live,                 \* pointers the callers hold -> how they were obtained
    sigblock,             \* thread -> sigblockall nesting count
    nops,                 \* thread -> public calls made
    vmem_calls,           \* _vmem_alloc() calls for big blocks, where scn.count asks
    scn                   \* the inputs the environment draws from

vars ==
    << g_malloc_flags, isthreaded, locks, ZoneAry, zone, zone_magazine, depots, mag,
       thread_mags, bigalloc_array, bigrec, bigcache_array, bigcache_size_array,
       bigcache_index, excess_alloc, malloc_panic, maps, mem, stk, res, live,
       sigblock, nops, vmem_calls, scn >>

\* The current state as one record; a step maps it to the next one.
Cur ==
    [ g_malloc_flags |-> g_malloc_flags, isthreaded |-> isthreaded, locks |-> locks,
      ZoneAry |-> ZoneAry, zone |-> zone, zone_magazine |-> zone_magazine,
      depots |-> depots, mag |-> mag, thread_mags |-> thread_mags,
      bigalloc_array |-> bigalloc_array, bigrec |-> bigrec,
      bigcache_array |-> bigcache_array, bigcache_size_array |-> bigcache_size_array,
      bigcache_index |-> bigcache_index, excess_alloc |-> excess_alloc,
      malloc_panic |-> malloc_panic, maps |-> maps, mem |-> mem, stk |-> stk,
      res |-> res, live |-> live, sigblock |-> sigblock, nops |-> nops,
      vmem_calls |-> vmem_calls, scn |-> scn ]

Commit(n) ==
    /\ g_malloc_flags' = n.g_malloc_flags
    /\ isthreaded' = n.isthreaded
    /\ locks' = n.locks
    /\ ZoneAry' = n.ZoneAry
    /\ zone' = n.zone
    /\ zone_magazine' = n.zone_magazine
    /\ depots' = n.depots
    /\ mag' = n.mag
    /\ thread_mags' = n.thread_mags
    /\ bigalloc_array' = n.bigalloc_array
    /\ bigrec' = n.bigrec
    /\ bigcache_array' = n.bigcache_array
    /\ bigcache_size_array' = n.bigcache_size_array
    /\ bigcache_index' = n.bigcache_index
    /\ excess_alloc' = n.excess_alloc
    /\ malloc_panic' = n.malloc_panic
    /\ maps' = n.maps
    /\ mem' = n.mem
    /\ stk' = n.stk
    /\ res' = n.res
    /\ live' = n.live
    /\ sigblock' = n.sigblock
    /\ nops' = n.nops
    /\ vmem_calls' = n.vmem_calls
    /\ scn' = n.scn

\* struct slzone after bzero / as mapped: every field zero.  UUsed counts the
\* chunks the never-touched cursor has handed out (z_UIndex before it wraps).
ZeroHdr ==
    [ Magic |-> 0, NFree |-> 0, Next |-> NULL, NMax |-> 0, BasePtr |-> 0, UIndex |-> 0,
      UEndIndex |-> 0, ChunkSize |-> 0, FirstFreePg |-> 0, ZoneIndex |-> 0, Flags |-> 0,
      PageAry |-> EmptyMap, UUsed |-> 0 ]

NoPair == [loaded |-> NULL, prev |-> NULL]
MagPair(tp, zi) == IF zi \in DOMAIN tp.mags THEN tp.mags[zi] ELSE NoPair
NoDepot == [full |-> << >>, empty |-> << >>]
Depot(S, zi) == IF zi \in DOMAIN S.depots THEN S.depots[zi] ELSE NoDepot

MAGAZINE_FULL(m) == Len(m.objs) = m.capacity
\* A test that takes the last free slot for none.
MAGAZINE_NOTFULL_BUT_ONE(m) == Len(m.objs) < m.capacity - 1

MAGAZINE_NOTFULL(m) == Len(m.objs) < m.capacity
MAGAZINE_EMPTY(m) == Len(m.objs) = 0
MAGAZINE_NOTEMPTY(m) == Len(m.objs) # 0

\* A magazine that hands out a round and keeps it.
magazine_alloc_keeps(objs) == objs

\* magazine_alloc() (1711-1722) on a magazine with rounds: the objects left.
magazine_alloc(objs) == SubSeq(objs, 1, Len(objs) - 1)

(***************************************************************************)
(* Frames, calls and locks                                                 *)
(***************************************************************************)
F0 ==
    [ pc |-> "", size |-> 0, flags |-> {}, zi |-> 0, chunking |-> 0, ptr |-> NULL,
      z |-> NULL, big |-> NULL, obj |-> NULL, i |-> 0, align |-> 0, rv |-> NULL,
      old |-> 0, xs |-> << >> ]

Top(S, t) == Head(S.stk[t])
SetTop(S, t, f) == [S EXCEPT !.stk[t] = <<f>> \o Tail(@)]
Goto(S, t, label) == SetTop(S, t, [Top(S, t) EXCEPT !.pc = label])
\* Call: the caller continues at frame `cont` when the callee returns.
Call(S, t, cont, callee) == [S EXCEPT !.stk[t] = <<callee, cont>> \o Tail(@)]
\* Return v to the caller's frame.
Ret(S, t, v) ==
    LET rest == Tail(S.stk[t])
    IN  [S EXCEPT !.stk[t] = <<[Head(rest) EXCEPT !.rv = v]>> \o Tail(rest)]

\* One more call of _vmem_alloc() for the data of a big block.
Counted(S) == IF S.scn.count THEN [S EXCEPT !.vmem_calls = @ + 1] ELSE S

\* _mpanic(): abort()
Panic(S) == [S EXCEPT !.malloc_panic = TRUE]

SlgdLock == BIGXSIZE
DepotLock == BIGXSIZE + 1
ZoneMagLock == BIGXSIZE + 2

\* _SPINLOCK under `if (__isthreaded)`
CanLock(S, l) == ~S.isthreaded \/ l \notin DOMAIN S.locks
\* A lock that is not taken.
LockSkipped(S, t, l) == S

Lock(S, t, l) == IF S.isthreaded THEN [S EXCEPT !.locks = Put(@, l, t)] ELSE S
\* A release that leaves the lock held.
UnlockKept(S, t, l) == S

Unlock(S, t, l) == IF S.isthreaded THEN [S EXCEPT !.locks = Del(@, l)] ELSE S

\* An adjustment of excess_alloc that is lost.
AddExcessLost(S, d) == S

\* atomic_add_long(&excess_alloc, d) on an unsigned long
AddExcess(S, d) == [S EXCEPT !.excess_alloc = (@ + d + SizeMod) % SizeMod]

(***************************************************************************)
(* _slaballoc(): the slab core under the slab lock (nmalloc.c 1273-1357)   *)
(***************************************************************************)
\* Chunks to cache into the loaded magazine (1282-1291).
CacheCount(mp, init, capacity, rounds, nfree) ==
    IF mp # NULL /\ init >= 0 THEN
        LET c1 == capacity - rounds
            c2 == IF c1 >= nfree THEN nfree - 1 ELSE c1
        IN  IF c2 > CACHE_CHUNKS THEN CACHE_CHUNKS ELSE c2
    ELSE 0

\* A chunk taken off a free list and still counted as free.
TakeFreeChunkUncounted(z, pg, lst) == [z EXCEPT !.PageAry = PutSeq(@, pg, Tail(lst))]

\* z->z_PageAry[z->z_FirstFreePg] = chunk->c_Next; --z->z_NFree (1304-1305)
TakeFreeChunk(z, pg, lst) ==
    [z EXCEPT !.PageAry = PutSeq(@, pg, Tail(lst)), !.NFree = @ - 1]

\* Loop state: z the zone header, objs the loaded magazine's objects, count
\* the chunks still to cache, chunk the chunk found, done = "goto done" taken.
\* while (z->z_FirstFreePg < ZonePageCount) ... (1298-1314)
RECURSIVE FreePgLoop(_)
FreePgLoop(st) ==
    IF st.z.FirstFreePg < ZonePageCount THEN
        LET pg == st.z.FirstFreePg
            lst == GetSeq(st.z.PageAry, pg)
        IN  IF lst # << >> THEN
                LET chunk == Head(lst)
                    z1 == TakeFreeChunk(st.z, pg, lst)
                IN  IF chunk % ZoneSize = 0 THEN [st EXCEPT !.panic = TRUE]
                    ELSE IF st.count = 0
                         THEN [st EXCEPT !.z = z1, !.chunk = chunk, !.done = TRUE]
                    ELSE FreePgLoop([st EXCEPT !.z = z1, !.chunk = chunk,
                                               !.objs = Append(@, chunk),
                                               !.count = @ - 1])
            ELSE FreePgLoop([st EXCEPT !.z.FirstFreePg = @ + 1])
    ELSE st

\* for (;;) over the never-touched area (1323-1338)
RECURSIVE UIndexLoop(_, _)
UIndexLoop(st, size) ==
    LET chunk == st.z.BasePtr + st.z.UIndex * size
        u1 == IF st.z.UIndex + 1 = st.z.NMax THEN 0 ELSE st.z.UIndex + 1
        z1 == [st.z EXCEPT !.NFree = @ - 1, !.UIndex = u1, !.UUsed = @ + 1]
    IN  IF u1 = z1.UEndIndex /\ z1.NFree # 0 THEN [st EXCEPT !.panic = TRUE]
        ELSE IF st.count = 0 THEN [st EXCEPT !.z = z1, !.chunk = chunk]
        ELSE UIndexLoop([st EXCEPT !.z = z1, !.chunk = chunk,
                                   !.objs = Append(@, chunk), !.count = @ - 1], size)

\* Whether the chunk just taken from zone z may skip its bzero (1340-1343):
\* the flags after the never-touched loop.
FlagsAfterUIndex(flags, zflags) ==
    IF zflags % 2 = 0 THEN (flags \ {"ZERO"}) \cup {"PASSIVE"} ELSE flags

\* Lines 1273-1357 with the slab lock held, for zone z of frame f.
SlabBody(S, t, f, z) ==
    LET zr == S.zone[z]
        tp == S.thread_mags[t]
        mp == MagPair(tp, f.zi).loaded
        count == CacheCount(mp, tp.init,
                            IF mp # NULL THEN S.mag[mp].capacity ELSE 0,
                            IF mp # NULL THEN Len(S.mag[mp].objs) ELSE 0,
                            zr.NFree)
        st0 == [z |-> zr, objs |-> IF mp # NULL THEN S.mag[mp].objs ELSE << >>,
                count |-> count, chunk |-> NULL, done |-> FALSE, panic |-> FALSE]
        st1 == FreePgLoop(st0)
        st2 == IF st1.done \/ st1.panic THEN st1 ELSE UIndexLoop(st1, f.size)
        flags2 == IF st1.done THEN f.flags ELSE FlagsAfterUIndex(f.flags, zr.Flags)
        empty == st2.z.NFree = 0
        z3 == IF empty THEN [st2.z EXCEPT !.Next = NULL] ELSE st2.z
        S1 == [S EXCEPT !.zone = Put(@, z, z3),
                        !.ZoneAry = IF empty THEN PutNZ(@, f.zi, st2.z.Next) ELSE @,
                        !.mag = IF mp # NULL THEN Put(@, mp, [S.mag[mp] EXCEPT !.objs = st2.objs])
                                ELSE @,
                        !.mem = IF "ZERO" \in flags2 THEN bzero(@, st2.chunk, f.size) ELSE @]
    IN  IF ~(zr.NFree > 0) \/ st2.panic THEN Panic(Unlock(S, t, SlgdLock))
        ELSE Ret(Unlock(S1, t, SlgdLock), t, st2.chunk)

\* Zone set-up of a zone z just obtained from zone_alloc (1209-1261).
ZoneInit(S, t, f, z) ==
    LET off == ZoneOff(f.size, f.chunking)
        nmax == (ZoneSize - off) \div f.size
        zr == [S.zone[z] EXCEPT !.Magic = ZALLOC_SLAB_MAGIC, !.ZoneIndex = f.zi,
                                !.NMax = nmax, !.NFree = nmax, !.BasePtr = z + off,
                                !.UIndex = 0, !.UEndIndex = 0, !.ChunkSize = f.size,
                                !.FirstFreePg = ZonePageCount, !.UUsed = 0]
        flags == IF zr.Flags % 2 = 0 THEN (f.flags \ {"ZERO"}) \cup {"PASSIVE"} ELSE f.flags
    IN  SetTop([S EXCEPT !.zone = Put(@, z, zr)], t,
               [f EXCEPT !.z = z, !.flags = flags, !.pc = "sa_newlock"])

\* again: (1203-1204) the unlocked test of the class list
Again(S, t, f) ==
    IF Get(S.ZoneAry, f.zi) = NULL THEN SetTop(S, t, [f EXCEPT !.pc = "za_lock"])
    ELSE SetTop(S, t, [f EXCEPT !.pc = "sa_lock"])

\* A scan that finds no slot.
BigcacheScanAllocMiss(sizes, bytes) == -1

\* bigcache_find_alloc(): the scan of the size array; the slot found, or -1.
BigcacheScanAlloc(sizes, bytes) ==
    LET hits == {i \in 0..(BIGCACHE - 1) : bytes <= sizes[i]}
    IN  IF hits = {} THEN -1 ELSE SetMin(hits)

\* Page rounding without the colouring page.
BigSizePlain(size) == RoundUpMask(size, PAGE_MASK)

\* A big request that comes out one page short.
BigSizeShort(size) ==
    LET s1 == RoundUpMask(size, PAGE_MASK)
    IN  IF s1 = 0 THEN 0 ELSE s1 - PAGE_SIZE

\* Size of a big request: page rounding and cache colouring (1122-1139).
BigSize(size) ==
    LET s1 == RoundUpMask(size, PAGE_MASK)
    IN  IF s1 = 0 THEN 0
        ELSE IF s1 % (PAGE_SIZE * 2) = 0 THEN s1 + PAGE_SIZE
        ELSE s1

\* The test without its clause for page multiples.
IsBigRequestByLimit(size) == size >= ZoneLimit

\* The test with two pages counted among the big page multiples.
IsBigRequestFromTwoPages(size) ==
    size >= ZoneLimit \/ (size % PAGE_SIZE = 0 /\ size >= MAX_SLAB_PAGEALIGN)

\* The request goes to the big allocator (1110-1111).
IsBigRequest(size) ==
    size >= ZoneLimit \/ (size % PAGE_SIZE = 0 /\ size > MAX_SLAB_PAGEALIGN)

\* The size left as it is.
ZeroSizeKept(size) == size

\* if (size == 0) size = 1 (1091-1092, 1377-1378)
ZeroSize(size) == IF size = 0 THEN 1 ELSE size

\* A store of atomic_swap_ptr() that does not reach the slot.
SwapPtrLost(slots, i, big) == slots

\* The slots after atomic_swap_ptr(&bigcache_array[i], big) (625, 651).
SwapPtr(slots, i, big) == [slots EXCEPT ![i] = big]

\* A reclaimed block accepted whatever its size.
TooSmallNever(bytes, size) == FALSE

\* big->bytes < size (1150)
TooSmall(bytes, size) == bytes < size

slaballoc_frame(size, flags) == [F0 EXCEPT !.pc = "sa_entry", !.size = size, !.flags = flags]
slabfree_frame(ptr) == [F0 EXCEPT !.pc = "sf_entry", !.ptr = ptr]
slabfree_fast_frame(ptr, big) ==
    [F0 EXCEPT !.pc = "sf_cache", !.ptr = ptr, !.big = big, !.flags = {"FAST"}]

SlabAllocPcs ==
    { "sa_entry", "sa_bigcache", "sa_bcswap", "sa_vmem", "sa_bigrec", "sa_biglock",
      "sa_bigins", "sa_bigdone", "sa_maret", "sa_again", "sa_newlock", "sa_link",
      "sa_lock", "sa_else" }

\* One step of _slaballoc(size, flags) (1070-1360); o is the kernel's choice
\* for _vmem_alloc.
slaballoc(S, t, o) ==
    LET f == Top(S, t)
    IN  CASE f.pc = "sa_entry" ->
            LET size0 == ZeroSize(f.size)
                flags == f.flags \cup S.g_malloc_flags
                bsz == BigSize(size0)
                zr == zoneindex(size0)
            IN  IF IsBigRequest(size0) THEN
                    IF bsz = 0 THEN Ret(S, t, NULL)
                    ELSE SetTop(S, t, [f EXCEPT !.size = bsz, !.flags = flags, !.big = NULL,
                                       !.pc = IF bsz <= BIGCACHE_LIMIT THEN "sa_bigcache"
                                              ELSE "sa_vmem"])
                ELSE IF zr.zi < 0 \/ ~(zr.zi < NZONES) THEN Panic(S)
                ELSE Call(S, t,
                          [f EXCEPT !.size = zr.bytes, !.chunking = zr.chunking,
                                    !.zi = zr.zi, !.flags = flags, !.pc = "sa_maret"],
                          [F0 EXCEPT !.pc = "ma_top", !.zi = zr.zi, !.flags = flags])
          [] f.pc = "sa_bigcache" ->
            LET i == BigcacheScanAlloc(S.bigcache_size_array, f.size)
            IN  IF i < 0 THEN SetTop(S, t, [f EXCEPT !.pc = "sa_vmem"])
                ELSE SetTop([S EXCEPT !.bigcache_size_array[i] = 0], t,
                            [f EXCEPT !.i = i, !.pc = "sa_bcswap"])
          [] f.pc = "sa_bcswap" ->
            LET big == S.bigcache_array[f.i]
                S1 == [S EXCEPT !.bigcache_array = SwapPtr(@, f.i, NULL)]
            IN  IF big = NULL THEN SetTop(S1, t, [f EXCEPT !.pc = "sa_vmem"])
                ELSE IF TooSmall(S.bigrec[big].bytes, f.size) THEN
                    Call(S1, t, [f EXCEPT !.pc = "sa_vmem", !.big = NULL],
                         slabfree_fast_frame(S.bigrec[big].base, big))
                ELSE SetTop([S1 EXCEPT !.bigrec[big].active = f.size,
                                       !.mem = IF "ZERO" \in f.flags
                                               THEN bzero(@, S.bigrec[big].base, f.size)
                                               ELSE @], t,
                            [f EXCEPT !.big = big, !.ptr = S.bigrec[big].base,
                                      !.pc = "sa_biglock"])
          [] f.pc = "sa_vmem" ->
            LET r == vmem_alloc(S.maps, f.size, PAGE_SIZE, o)
                S0 == Counted(S)
            IN  IF r.addr = NULL THEN Ret(S0, t, NULL)
                ELSE Call([S0 EXCEPT !.maps = r.maps], t,
                          [f EXCEPT !.ptr = r.addr, !.pc = "sa_bigrec"],
                          slaballoc_frame(SizeofBigalloc, {}))
          [] f.pc = "sa_bigrec" ->
            IF f.rv = NULL THEN
                Ret([S EXCEPT !.maps = Munmap(@, f.ptr, f.size),
                              !.mem = MemSub(@, f.ptr, f.ptr + f.size)], t, NULL)
            ELSE SetTop([S EXCEPT !.bigrec = Put(@, f.rv, [base |-> f.ptr, active |-> f.size,
                                                           bytes |-> f.size]),
                                  !.mem = MemWrite(@, f.rv, f.rv + SizeofBigalloc, MetaTag)],
                        t, [f EXCEPT !.big = f.rv, !.pc = "sa_biglock"])
          [] f.pc = "sa_biglock" ->
            Goto(Lock(S, t, BigStripe(f.ptr)), t, "sa_bigins")
          [] f.pc = "sa_bigins" ->
            LET b == S.bigrec[f.big]
                S1 == IF b.active < b.bytes THEN AddExcess(S, b.bytes - b.active) ELSE S
                S2 == [S1 EXCEPT !.bigalloc_array =
                           Put(@, BigBucket(f.ptr), <<f.big>> \o GetSeq(@, BigBucket(f.ptr)))]
            IN  Call(Unlock(S2, t, BigStripe(f.ptr)), t, [f EXCEPT !.pc = "sa_bigdone"],
                     [F0 EXCEPT !.pc = "he_top"])
          [] f.pc = "sa_bigdone" -> Ret(S, t, f.ptr)
          [] f.pc = "sa_maret" ->
            IF f.rv # NULL THEN
                Ret([S EXCEPT !.mem = IF "ZERO" \in f.flags THEN bzero(@, f.rv, f.size) ELSE @],
                    t, f.rv)
            ELSE Again(S, t, f)
          [] f.pc = "sa_again" -> Again(S, t, f)
          [] f.pc = "sa_newlock" -> Goto(Lock(S, t, SlgdLock), t, "sa_link")
          [] f.pc = "sa_link" ->
            SlabBody([S EXCEPT !.zone[f.z].Next = Get(S.ZoneAry, f.zi),
                               !.ZoneAry = Put(@, f.zi, f.z)], t, f, f.z)
          [] f.pc = "sa_lock" -> Goto(Lock(S, t, SlgdLock), t, "sa_else")
          [] f.pc = "sa_else" ->
            LET z == Get(S.ZoneAry, f.zi)
            IN  IF z = NULL THEN Goto(Unlock(S, t, SlgdLock), t, "sa_again")
                ELSE SlabBody(S, t, f, z)

(***************************************************************************)
(* zone_alloc() (2016-2032), inlined in the frame of _slaballoc            *)
(***************************************************************************)
ZoneAllocPcs == { "za_lock", "za_body", "za_vmem" }

zone_alloc(S, t, o) ==
    LET f == Top(S, t)
    IN  CASE f.pc = "za_lock" -> Goto(Lock(S, t, ZoneMagLock), t, "za_body")
          [] f.pc = "za_body" ->
            LET zm == S.zone_magazine
                n == Len(zm.objs)
                z == zm.objs[n]
                S1 == [S EXCEPT !.zone_magazine.objs = magazine_alloc(zm.objs),
                                !.zone[z].Flags = BitOr(@, SLZF_UNOTZEROD)]
            IN  IF n = 0 THEN Goto(Unlock(S, t, ZoneMagLock), t, "za_vmem")
                ELSE ZoneInit(Unlock(S1, t, ZoneMagLock), t, f, z)
          [] f.pc = "za_vmem" ->
            LET r == vmem_alloc(S.maps, ZoneSize, ZoneSize, o)
            IN  IF r.addr = NULL THEN Ret(S, t, NULL)
                ELSE ZoneInit([S EXCEPT !.maps = r.maps, !.zone = Put(@, r.addr, ZeroHdr)],
                              t, f, r.addr)

(***************************************************************************)
(* mtmagazine_alloc() (1735-1834)                                          *)
(***************************************************************************)
\* A thread whose magazines are always open.
MagsNeverBypassed(tp) == FALSE

\* if (tp->init < 0) return (1748-1749, 1849-1850): no per-thread magazines
\* while they are being initialized or destroyed.
MagsBypassed(tp) == tp.init < 0

SetPair(S, t, zi, pair) ==
    [S EXCEPT !.thread_mags[t].mags = IF pair = NoPair THEN Del(@, zi) ELSE Put(@, zi, pair)]

\* tp->newmag becomes the loaded magazine of class zi (1800-1806, 1919-1924);
\* the capacity field of the magazine is then not zero.
InstallNewmag(S, t, zi) ==
    LET mp == S.thread_mags[t].newmag
        S1 == [S EXCEPT !.thread_mags[t].newmag = NULL,
                        !.mag = Put(@, mp, [capacity |-> zonecapacity(zi), objs |-> << >>]),
                        !.mem = MemWrite(@, mp + 12, mp + 16, MetaTag)]
    IN  SetPair(S1, t, zi, [MagPair(S.thread_mags[t], zi) EXCEPT !.loaded = mp])

\* A staging that does not look at the flags.
StagesAlways(tp, flags) == tp.newmag = NULL

\* if (tp->newmag == NULL && (flags & SAFLAG_MAGS) == 0) (1758)
Stages(tp, flags) == tp.newmag = NULL /\ "MAGS" \notin flags

\* The body of for (;;) from its top up to the first shared access.
RECURSIVE MaLoop(_, _)
MaLoop(S, t) ==
    LET f == Top(S, t)
        tp == S.thread_mags[t]
        pair == MagPair(tp, f.zi)
        lm == S.mag[pair.loaded]
        n == Len(lm.objs)
    IN  IF Stages(tp, f.flags) THEN
            Call(S, t, [f EXCEPT !.pc = "ma_staged"],
                 slaballoc_frame(SizeofMagazine, {"ZERO", "MAGS"}))
        ELSE IF pair.loaded # NULL /\ MAGAZINE_NOTEMPTY(lm) THEN
            Ret([S EXCEPT !.mag[pair.loaded].objs = magazine_alloc(lm.objs)], t, lm.objs[n])
        ELSE IF pair.prev # NULL /\ MAGAZINE_FULL(S.mag[pair.prev]) THEN
            IF Len(S.mag[pair.prev].objs) = 0 THEN Panic(S)
            ELSE MaLoop(SetPair(S, t, f.zi, [loaded |-> pair.prev, prev |-> pair.loaded]), t)
        ELSE IF Depot(S, f.zi).full = << >> THEN
            IF pair.loaded = NULL /\ tp.newmag # NULL
            THEN Ret(InstallNewmag(S, t, f.zi), t, NULL)
            ELSE Ret(S, t, NULL)
        ELSE Goto(S, t, "ma_dlock")

\* A magazine taken from the depot and left on its list.
DepotKeepHead(full) == full

\* SLIST_REMOVE_HEAD(&d->full, nextmagazine) (1819)
DepotRemoveHead(full) == Tail(full)

MtMagazineAllocPcs == { "ma_top", "ma_loop", "ma_staged", "ma_local", "ma_dlock", "ma_depot" }

mtmagazine_alloc(S, t) ==
    LET f == Top(S, t)
        tp == S.thread_mags[t]
    IN  CASE f.pc = "ma_top" ->
            IF MagsBypassed(tp) THEN Ret(S, t, NULL) ELSE MaLoop(S, t)
          [] f.pc = "ma_loop" -> MaLoop(S, t)
          [] f.pc = "ma_staged" ->
            IF f.rv = NULL THEN Ret(S, t, NULL)
            ELSE IF tp.newmag # NULL THEN
                Call(S, t, [f EXCEPT !.pc = "ma_local"],
                     slabfree_frame(f.rv))
            ELSE MaLoop([S EXCEPT !.thread_mags[t].newmag = f.rv], t)
          [] f.pc = "ma_local" -> MaLoop(S, t)
          [] f.pc = "ma_dlock" -> Goto(Lock(S, t, DepotLock), t, "ma_depot")
          [] f.pc = "ma_depot" ->
            LET d == Depot(S, f.zi)
                pair == MagPair(tp, f.zi)
                mp == Head(d.full)
                d1 == [full |-> DepotRemoveHead(d.full),
                       empty |-> IF pair.prev # NULL THEN <<pair.prev>> \o d.empty
                                 ELSE d.empty]
                S1 == SetPair([S EXCEPT !.depots = IF d1 = NoDepot THEN Del(@, f.zi)
                                                   ELSE Put(@, f.zi, d1)],
                              t, f.zi, [loaded |-> mp, prev |-> pair.loaded])
            IN  IF d.full = << >> THEN Goto(Unlock(S, t, DepotLock), t, "ma_loop")
                ELSE IF ~MAGAZINE_NOTEMPTY(S.mag[mp]) THEN Panic(S1)
                ELSE Goto(Unlock(S1, t, DepotLock), t, "ma_loop")

(***************************************************************************)
(* mtmagazine_free() (1836-1930)                                           *)
(***************************************************************************)
mtmagazine_free_frame(zi, ptr) == [F0 EXCEPT !.pc = "mf_top", !.zi = zi, !.ptr = ptr]

\* A free path that never stages.
FreeStagesNever(tp) == FALSE

\* if (tp->newmag == NULL) (1869)
FreeStages(tp) == tp.newmag = NULL

RECURSIVE MfLoop(_, _)
MfLoop(S, t) ==
    LET f == Top(S, t)
        tp == S.thread_mags[t]
        pair == MagPair(tp, f.zi)
    IN  IF FreeStages(tp) THEN
            Call(S, t, [f EXCEPT !.pc = "mf_staged"],
                 slaballoc_frame(SizeofMagazine, {"ZERO", "MAGS"}))
        ELSE IF pair.loaded # NULL /\ MAGAZINE_NOTFULL(S.mag[pair.loaded]) THEN
            Ret([S EXCEPT !.mag[pair.loaded].objs = Append(@, f.ptr)], t, 0)
        ELSE IF pair.prev # NULL /\ MAGAZINE_EMPTY(S.mag[pair.prev]) THEN
            MfLoop(SetPair(S, t, f.zi, [loaded |-> pair.prev, prev |-> pair.loaded]), t)
        ELSE Goto(S, t, "mf_dlock")

\* After the staging call returned (1872-1879).
MfStaged(S, t) ==
    IF S.thread_mags[t].newmag = NULL THEN Ret(S, t, -1) ELSE MfLoop(S, t)

MtMagazineFreePcs == { "mf_top", "mf_loop", "mf_staged", "mf_freed", "mf_dlock", "mf_depot" }

mtmagazine_free(S, t) ==
    LET f == Top(S, t)
        tp == S.thread_mags[t]
    IN  CASE f.pc = "mf_top" ->
            IF MagsBypassed(tp) THEN Ret(S, t, -1) ELSE MfLoop(S, t)
          [] f.pc = "mf_loop" -> MfLoop(S, t)
          [] f.pc = "mf_staged" ->
            IF tp.newmag # NULL /\ f.rv # NULL THEN
                Call(S, t, [f EXCEPT !.pc = "mf_freed"], slabfree_frame(f.rv))
            ELSE MfStaged([S EXCEPT !.thread_mags[t].newmag = f.rv], t)
          [] f.pc = "mf_freed" -> MfStaged(S, t)
          [] f.pc = "mf_dlock" -> Goto(Lock(S, t, DepotLock), t, "mf_depot")
          [] f.pc = "mf_depot" ->
            LET d == Depot(S, f.zi)
                pair == MagPair(tp, f.zi)
                full1 == IF pair.prev # NULL THEN <<pair.prev>> \o d.full ELSE d.full
                mp == Head(d.empty)
                d1 == [full |-> full1,
                       empty |-> IF d.empty # << >> THEN Tail(d.empty) ELSE d.empty]
                S0 == [S EXCEPT !.depots = IF d1 = NoDepot THEN Del(@, f.zi)
                                           ELSE Put(@, f.zi, d1)]
                S1 == SetPair(S0, t, f.zi, [loaded |-> pair.loaded, prev |-> pair.loaded])
                S2 == IF d.empty # << >>
                      THEN SetPair(S0, t, f.zi, [loaded |-> mp, prev |-> pair.loaded])
                      ELSE InstallNewmag(S1, t, f.zi)
            IN  IF d.empty # << >> /\ ~MAGAZINE_NOTFULL(S.mag[mp])
                THEN Panic(Unlock(S2, t, DepotLock))
                ELSE Goto(Unlock(S2, t, DepotLock), t, "mf_loop")

(***************************************************************************)
(* zone_free() (2037-2071), inlined in the frame of _slabfree              *)
(***************************************************************************)
RECURSIVE UnmapZones(_, _)
UnmapZones(S, zs) ==
    IF zs = << >> THEN S
    ELSE UnmapZones([S EXCEPT !.maps = Munmap(@, Head(zs), ZoneSize),
                              !.mem = MemSub(@, Head(zs), Head(zs) + ZoneSize),
                              !.zone = Del(@, Head(zs))], Tail(zs))

\* An overflow that takes every zone out of the zone magazine.
ZoneMagazineEmptied(objs) == << >>

\* What the M_ZONE_HYSTERESIS calls of magazine_alloc leave in the zone
\* magazine (2058-2062).
ZoneMagazineKept(objs) == SubSeq(objs, 1, Len(objs) - M_ZONE_HYSTERESIS)

ZoneFreePcs == { "zf_lock", "zf_body", "zf_unmap" }

zone_free(S, t) ==
    LET f == Top(S, t)
    IN  CASE f.pc = "zf_lock" -> Goto(Lock(S, t, ZoneMagLock), t, "zf_body")
          [] f.pc = "zf_body" ->
            LET zm == S.zone_magazine
                n == Len(zm.objs)
                S1 == [S EXCEPT !.zone = Put(@, f.z, ZeroHdr)]
                excess == [i \in 1..M_ZONE_HYSTERESIS |-> zm.objs[n + 1 - i]]
            IN  IF MAGAZINE_NOTFULL(zm) THEN
                    Ret(Unlock([S1 EXCEPT !.zone_magazine.objs = Append(@, f.z)],
                               t, ZoneMagLock), t, NULL)
                ELSE IF n < M_ZONE_HYSTERESIS THEN
                    Panic(Unlock([S1 EXCEPT !.zone_magazine.objs = << >>], t, ZoneMagLock))
                ELSE SetTop(Unlock([S1 EXCEPT !.zone_magazine.objs = ZoneMagazineKept(zm.objs)],
                                   t, ZoneMagLock),
                            t, [f EXCEPT !.pc = "zf_unmap", !.xs = excess])
          [] f.pc = "zf_unmap" -> Ret(UnmapZones(S, f.xs \o <<f.z>>), t, NULL)

(***************************************************************************)
(* handle_excess_big() (658-691)                                           *)
(***************************************************************************)
handle_excess_frame == [F0 EXCEPT !.pc = "he_top"]

TrimChainNone(recs, chain) == recs

\* The records of a chain after the trim of lines 675-687.
TrimChain(recs, chain) ==
    [b \in DOMAIN recs |->
        IF b \in SeqSet(chain) /\ recs[b].active < recs[b].bytes
        THEN [recs[b] EXCEPT !.bytes = recs[b].active] ELSE recs[b]]

RECURSIVE TrimUnmap(_, _, _)
TrimUnmap(S, recs, chain) ==
    IF chain = << >> THEN S
    ELSE LET b == recs[Head(chain)]
             S1 == IF b.active < b.bytes
                   THEN AddExcess([S EXCEPT !.maps = Munmap(@, b.base + b.active,
                                                            b.bytes - b.active),
                                            !.mem = MemSub(@, b.base + b.active,
                                                           b.base + b.bytes)],
                                  b.active - b.bytes)
                   ELSE S
         IN  TrimUnmap(S1, recs, Tail(chain))

HandleExcessPcs == { "he_top", "he_scan", "he_lock", "he_trim" }

\* for (i = 0; i < BIGHSIZE; ++i): the next bucket >= i that is not empty.
HeScan(S, t, f, i) ==
    LET nz == {k \in DOMAIN S.bigalloc_array : k >= i}
    IN  IF nz = {} THEN Ret(S, t, NULL)
        ELSE SetTop(S, t, [f EXCEPT !.i = SetMin(nz), !.pc = "he_lock"])

handle_excess_big(S, t) ==
    LET f == Top(S, t)
    IN  CASE f.pc = "he_top" ->
            IF S.excess_alloc <= BIGCACHE_EXCESS THEN Ret(S, t, NULL)
            ELSE Goto(S, t, "he_scan")
          [] f.pc = "he_scan" -> HeScan(S, t, f, f.i)
          [] f.pc = "he_lock" -> Goto(Lock(S, t, f.i % BIGXSIZE), t, "he_trim")
          [] f.pc = "he_trim" ->
            LET chain == GetSeq(S.bigalloc_array, f.i)
                bad == \E k \in 1..Len(chain) :
                          /\ S.bigrec[chain[k]].active < S.bigrec[chain[k]].bytes
                          /\ \/ S.bigrec[chain[k]].active % PAGE_SIZE # 0
                             \/ S.bigrec[chain[k]].bytes % PAGE_SIZE # 0
                S1 == [TrimUnmap(S, S.bigrec, chain) EXCEPT
                           !.bigrec = TrimChain(S.bigrec, chain)]
            IN  IF bad THEN Panic(Unlock(S, t, f.i % BIGXSIZE))
                ELSE SetTop(Unlock(S1, t, f.i % BIGXSIZE), t,
                            [f EXCEPT !.i = f.i + 1, !.pc = "he_scan"])

(***************************************************************************)
(* _slabfree() (1590-1705)                                                 *)
(***************************************************************************)
\* The record of a chain whose base is ptr (NULL: none).
ChainFind(recs, chain, ptr) ==
    LET hits == {k \in 1..Len(chain) : recs[chain[k]].base = ptr}
    IN  IF hits = {} THEN NULL ELSE chain[SetMin(hits)]

ZoneOf(ptr) == AndNotMask(ptr, ZoneMask)

\* The zone case up to the call of mtmagazine_free (1652-1661).
SfZone(S, t, f) ==
    LET z == ZoneOf(f.ptr)
        zr == S.zone[z]
        S1 == [S EXCEPT !.mem = IF "ZERO" \in S.g_malloc_flags
                                THEN bzero(@, f.ptr, zr.ChunkSize) ELSE @]
    IN  IF z \notin DOMAIN S.zone \/ zr.Magic # ZALLOC_SLAB_MAGIC THEN Panic(S)
        ELSE Call(S1, t, [f EXCEPT !.z = z, !.size = zr.ChunkSize, !.zi = zr.ZoneIndex,
                                   !.pc = "sf_mfret"],
                  mtmagazine_free_frame(zr.ZoneIndex, f.ptr))

\* bigcache_find_free(): ++bigcache_index and the scan (646-650); the slot, or -1.
BigcacheScanFree(sizes, b, bytes) ==
    LET hits == {i \in 0..(BIGCACHE - 1) : sizes[(b + i) % BIGCACHE] < bytes}
    IN  IF hits = {} THEN -1 ELSE (b + SetMin(hits)) % BIGCACHE

\* A free that leaves z_FirstFreePg where it was.
FirstFreePgKept(first, pgno) == first

\* if (z->z_FirstFreePg > pgno) z->z_FirstFreePg = pgno (1676-1677)
FirstFreePgAfter(first, pgno) == IF first > pgno THEN pgno ELSE first

\* A test that lets a zone go with one chunk still out.
ZoneNearlyFree(z) == z.NFree >= z.NMax - 1

\* if (z->z_NFree == z->z_NMax) (1691)
ZoneTotallyFree(z) == z.NFree = z.NMax

\* An unlink that drops the first zone of the list, whichever it is.
ZoneUnlinkHead(zones, head, z) == [zones |-> zones, head |-> zones[head].Next]

\* The zone list of class zi without zone z (1694-1697).
RECURSIVE ZoneUnlink(_, _, _)
ZoneUnlink(zones, head, z) ==
    IF head = z THEN [zones |-> zones, head |-> zones[z].Next]
    ELSE LET r == ZoneUnlink(zones, zones[head].Next, z)
         IN  [zones |-> [r.zones EXCEPT ![head].Next = r.head], head |-> head]

\* b = ++bigcache_index and the scan of bigcache_find_free() (645-653).  The
\* increment is an unlocked load and store of a plain int: with threads the
\* load is a step of its own (f.i holds the value read), and an increment of
\* another thread between the two is lost.
SfScan(S, t, f, b) ==
    LET bytes == S.bigrec[f.big].bytes
        j == BigcacheScanFree(S.bigcache_size_array, b, bytes)
    IN  IF j < 0 THEN Goto([S EXCEPT !.bigcache_index = b], t, "sf_bigfree")
        ELSE SetTop([S EXCEPT !.bigcache_index = b,
                              !.bigcache_size_array[j] = bytes], t,
                    [f EXCEPT !.i = j, !.pc = "sf_cswap"])

SlabFreePcs ==
    { "sf_entry", "sf_biglock", "sf_bigscan", "sf_zone", "sf_cache", "sf_cindex", "sf_cswap",
      "sf_bigfree", "sf_vmfree", "sf_mfret", "sf_slab", "sf_slabbody" }

slabfree(S, t) ==
    LET f == Top(S, t)
    IN  CASE f.pc = "sf_entry" ->
            IF f.ptr = NULL THEN Ret(S, t, NULL)
            ELSE IF GetSeq(S.bigalloc_array, BigBucket(f.ptr)) = << >> THEN SfZone(S, t, f)
            ELSE Goto(S, t, "sf_biglock")
          [] f.pc = "sf_biglock" -> Goto(Lock(S, t, BigStripe(f.ptr)), t, "sf_bigscan")
          [] f.pc = "sf_bigscan" ->
            LET k == BigBucket(f.ptr)
                chain == GetSeq(S.bigalloc_array, k)
                big == ChainFind(S.bigrec, chain, f.ptr)
                S1 == AddExcess([S EXCEPT !.bigalloc_array =
                                     PutSeq(@, k, SeqRemove(chain, big))],
                                S.bigrec[big].active - S.bigrec[big].bytes)
            IN  IF big # NULL
                THEN SetTop(Unlock(S1, t, BigStripe(f.ptr)), t,
                            [f EXCEPT !.big = big, !.pc = "sf_cache"])
                ELSE Call(Unlock(S, t, BigStripe(f.ptr)), t, [f EXCEPT !.pc = "sf_zone"],
                          handle_excess_frame)
          [] f.pc = "sf_zone" -> SfZone(S, t, f)
          [] f.pc = "sf_cache" ->
            IF S.bigrec[f.big].bytes > BIGCACHE_LIMIT THEN Goto(S, t, "sf_bigfree")
            ELSE IF S.isthreaded
            THEN SetTop(S, t, [f EXCEPT !.i = S.bigcache_index, !.pc = "sf_cindex"])
            ELSE SfScan(S, t, f, S.bigcache_index + 1)
          [] f.pc = "sf_cindex" -> SfScan(S, t, f, f.i + 1)
          [] f.pc = "sf_cswap" ->
            LET old == S.bigcache_array[f.i]
                S1 == [S EXCEPT !.bigcache_array = SwapPtr(@, f.i, f.big)]
            IN  IF old = NULL THEN Ret(S1, t, NULL)
                ELSE SetTop(S1, t, [f EXCEPT !.big = old, !.pc = "sf_bigfree"])
          [] f.pc = "sf_bigfree" ->
            Call([S EXCEPT !.bigrec = Del(@, f.big)], t,
                 [f EXCEPT !.ptr = S.bigrec[f.big].base, !.size = S.bigrec[f.big].bytes,
                           !.pc = "sf_vmfree"],
                 slabfree_frame(f.big))
          [] f.pc = "sf_vmfree" ->
            Ret([S EXCEPT !.maps = Munmap(@, f.ptr, f.size),
                          !.mem = MemSub(@, f.ptr, f.ptr + f.size)], t, NULL)
          [] f.pc = "sf_mfret" ->
            IF f.rv = 0 THEN Ret(S, t, NULL) ELSE Goto(S, t, "sf_slab")
          [] f.pc = "sf_slab" -> Goto(Lock(S, t, SlgdLock), t, "sf_slabbody")
          [] f.pc = "sf_slabbody" ->
            LET zr == S.zone[f.z]
                pgno == (f.ptr - f.z) \div PAGE_SIZE
                lst == GetSeq(zr.PageAry, pgno)
                z1 == [zr EXCEPT !.PageAry = Put(@, pgno, <<f.ptr>> \o lst),
                                 !.FirstFreePg = FirstFreePgAfter(@, pgno),
                                 !.NFree = @ + 1,
                                 !.Next = IF zr.NFree = 0 THEN Get(S.ZoneAry, zr.ZoneIndex)
                                          ELSE @]
                S1 == [S EXCEPT !.zone = Put(@, f.z, z1),
                                !.ZoneAry = IF zr.NFree = 0 THEN Put(@, zr.ZoneIndex, f.z)
                                            ELSE @,
                                !.mem = IF lst = << >> THEN bzero(@, f.ptr, SizeofPtr)
                                        ELSE MemWrite(@, f.ptr, f.ptr + SizeofPtr, MetaTag)]
                u == ZoneUnlink(S1.zone, Get(S1.ZoneAry, zr.ZoneIndex), f.z)
                S2 == [S1 EXCEPT !.zone = [u.zones EXCEPT ![f.z].Magic = -1,
                                                          ![f.z].Next = NULL],
                                 !.ZoneAry = PutNZ(@, zr.ZoneIndex, u.head)]
            IN  IF ZoneTotallyFree(z1)
                THEN Goto(Unlock(S2, t, SlgdLock), t, "zf_lock")
                ELSE Ret(Unlock(S1, t, SlgdLock), t, NULL)

(***************************************************************************)
(* _slabrealloc() (1365-1521)                                              *)
(***************************************************************************)
slabrealloc_frame(ptr, size) == [F0 EXCEPT !.pc = "sr_entry", !.ptr = ptr, !.size = size]

\* chunking = size + (size >> 3), page rounded (1417-1419)
ReallocChunking(size) == RoundUpMask((size + size \div 8) % SizeMod, PAGE_MASK)

\* The zone case (1496-1513) up to the call of _slaballoc.
SrZone(S, t, f) ==
    LET z == ZoneOf(f.ptr)
        zr == S.zone[z]
        size == IF f.size < ZoneLimit THEN zoneindex(f.size).bytes ELSE f.size
    IN  IF z \notin DOMAIN S.zone \/ zr.Magic # ZALLOC_SLAB_MAGIC THEN Panic(S)
        ELSE IF f.size < ZoneLimit /\ zr.ChunkSize = size THEN Ret(S, t, f.ptr)
        ELSE Call(S, t, [f EXCEPT !.z = z, !.size = size, !.pc = "sr_moved"],
                  slaballoc_frame(size, {}))

\* The record left out of its chain.
RelinkDropped(arr, k, big) == arr

\* Relink block (1467-1470)
Relink(arr, k, big) == Put(arr, k, <<big>> \o GetSeq(arr, k))

SlabReallocPcs ==
    { "sr_entry", "sr_ret", "sr_biglock", "sr_bigscan", "sr_bigmoved", "sr_relock",
      "sr_relink", "sr_zone", "sr_moved", "sr_retn" }

\* om is the kernel's choice for the MAP_TRYFIXED mmap.
slabrealloc(S, t, om) ==
    LET f == Top(S, t)
    IN  CASE f.pc = "sr_entry" ->
            LET f1 == [f EXCEPT !.size = ZeroSize(f.size)]
            IN  IF f.ptr = NULL
                THEN Call(S, t, [f EXCEPT !.pc = "sr_ret"], slaballoc_frame(f.size, {}))
                ELSE IF GetSeq(S.bigalloc_array, BigBucket(f.ptr)) = << >>
                THEN SrZone(S, t, f1)
                ELSE SetTop(S, t, [f1 EXCEPT !.pc = "sr_biglock"])
          [] f.pc = "sr_ret" -> Ret(S, t, f.rv)
          [] f.pc = "sr_biglock" -> Goto(Lock(S, t, BigStripe(f.ptr)), t, "sr_bigscan")
          [] f.pc = "sr_bigscan" ->
            LET k == BigBucket(f.ptr)
                l == BigStripe(f.ptr)
                chain == GetSeq(S.bigalloc_array, k)
                big == ChainFind(S.bigrec, chain, f.ptr)
                b == S.bigrec[big]
                size == RoundUpMask(f.size, PAGE_MASK)
                bigbytes == b.bytes
                chunking == ReallocChunking(size)
                fixed == /\ om # "fail"
                         /\ MapFree(S.maps, f.ptr + bigbytes, f.ptr + chunking)
                Sfit == AddExcess([S EXCEPT !.bigrec[big].active = size],
                                  IF b.active # size THEN b.active - size ELSE 0)
                Sext == AddExcess([S EXCEPT !.bigrec[big].bytes = chunking,
                                            !.bigrec[big].active = size,
                                            !.maps = Mmap(@, f.ptr + bigbytes,
                                                          chunking - bigbytes)],
                                  b.active - b.bytes + chunking - size)
                Sunl == [S EXCEPT !.bigalloc_array = PutSeq(@, k, SeqRemove(chain, big))]
            IN  IF big = NULL
                THEN Call(Unlock(S, t, l), t, [f EXCEPT !.pc = "sr_zone"],
                          handle_excess_frame)
                ELSE IF size >= bigbytes \div 2 /\ size <= bigbytes
                THEN Ret(Unlock(Sfit, t, l), t, f.ptr)
                ELSE IF chunking > bigbytes /\ fixed
                THEN Ret(Unlock(Sext, t, l), t, f.ptr)
                ELSE Call(Unlock(Sunl, t, l), t,
                          [f EXCEPT !.size = size, !.big = big, !.old = bigbytes,
                                    !.pc = "sr_bigmoved"],
                          slaballoc_frame(size, {}))
          [] f.pc = "sr_bigmoved" ->
            LET b == S.bigrec[f.big]
                n == IF f.size > f.old THEN f.old ELSE f.size
                S1 == AddExcess([S EXCEPT !.mem = bcopy(@, f.ptr, f.rv, n)],
                                b.active - b.bytes)
            IN  IF f.rv = NULL THEN Goto(S, t, "sr_relock")
                ELSE Call(S1, t, [f EXCEPT !.obj = f.rv, !.pc = "sr_retn"],
                          slabfree_fast_frame(f.ptr, f.big))
          [] f.pc = "sr_relock" -> Goto(Lock(S, t, BigStripe(f.ptr)), t, "sr_relink")
          [] f.pc = "sr_relink" ->
            LET k == BigBucket(f.ptr)
            IN  Ret(Unlock([S EXCEPT !.bigalloc_array = Relink(@, k, f.big)],
                           t, BigStripe(f.ptr)), t, NULL)
          [] f.pc = "sr_zone" -> SrZone(S, t, f)
          [] f.pc = "sr_moved" ->
            LET cs == S.zone[f.z].ChunkSize
                n == IF f.size > cs THEN cs ELSE f.size
            IN  IF f.rv = NULL THEN Ret(S, t, NULL)
                ELSE Call([S EXCEPT !.mem = bcopy(@, f.ptr, f.rv, n)], t,
                          [f EXCEPT !.obj = f.rv, !.pc = "sr_retn"], slabfree_frame(f.ptr))
          [] f.pc = "sr_retn" -> Ret(S, t, f.obj)

(***************************************************************************)
(* _slabusablesize() (1526-1575)                                           *)
(***************************************************************************)
slabusablesize_frame(ptr) == [F0 EXCEPT !.pc = "us_entry", !.ptr = ptr]

\* The record of a chain whose block contains ptr (NULL: none).
ChainFindIn(recs, chain, ptr) ==
    LET hits == {k \in 1..Len(chain) :
                    ptr >= recs[chain[k]].base /\
                    ptr < recs[chain[k]].base + recs[chain[k]].bytes}
    IN  IF hits = {} THEN NULL ELSE chain[SetMin(hits)]

\* The zone case (1568-1574).
UsZone(S, t, f) ==
    LET z == ZoneOf(f.ptr)
        zr == S.zone[z]
    IN  IF z \notin DOMAIN S.zone \/ zr.Magic # ZALLOC_SLAB_MAGIC THEN Panic(S)
        ELSE Ret(S, t, zr.ChunkSize - ((f.ptr - zr.BasePtr) % zr.ChunkSize))

SlabUsableSizePcs == { "us_entry", "us_biglock", "us_bigscan", "us_zone" }

slabusablesize(S, t) ==
    LET f == Top(S, t)
    IN  CASE f.pc = "us_entry" ->
            IF f.ptr = NULL THEN Ret(S, t, 0)
            ELSE IF GetSeq(S.bigalloc_array, BigBucket(f.ptr)) = << >> THEN UsZone(S, t, f)
            ELSE Goto(S, t, "us_biglock")
          [] f.pc = "us_biglock" -> Goto(Lock(S, t, BigStripe(f.ptr)), t, "us_bigscan")
          [] f.pc = "us_bigscan" ->
            LET chain == GetSeq(S.bigalloc_array, BigBucket(f.ptr))
                big == ChainFindIn(S.bigrec, chain, f.ptr)
                b == S.bigrec[big]
            IN  IF big # NULL
                THEN Ret(Unlock(S, t, BigStripe(f.ptr)), t, b.base + b.bytes - f.ptr)
                ELSE Call(Unlock(S, t, BigStripe(f.ptr)), t, [f EXCEPT !.pc = "us_zone"],
                          handle_excess_frame)
          [] f.pc = "us_zone" -> UsZone(S, t, f)

(***************************************************************************)
(* _slabmemalign() (916-1048)                                              *)
(***************************************************************************)
\* f.ptr holds *memptr as the caller left it.
slabmemalign_frame(memptr, alignment, size) ==
    [F0 EXCEPT !.pc = "mm_entry", !.ptr = memptr, !.align = alignment, !.size = size]

\* Return rc with *memptr = ptr: the caller's frame gets rv = ptr and i = rc.
RetRc(S, t, rc, ptr) ==
    LET rest == Tail(S.stk[t])
    IN  [S EXCEPT !.stk[t] = <<[Head(rest) EXCEPT !.rv = ptr, !.i = rc]>> \o Tail(rest)]

\* size rounded up to the alignment (944-947)
AlignSize(size, alignment) ==
    IF size <= alignment THEN alignment
    ELSE AndNotMask((size + alignment - 1) % SizeMod, alignment - 1)

\* while (alignment < size) alignment <<= 1 (992-993)
RECURSIVE Pow2Above(_, _)
Pow2Above(alignment, size) ==
    IF alignment < size THEN Pow2Above((2 * alignment) % SizeMod, size) ELSE alignment

\* The alignment the slab request is made with (988-993)
SlabAlignment(alignment, size) ==
    LET a1 == IF size >= 1024 THEN 1024 ELSE alignment
        a2 == IF size >= 16384 THEN 16384 ELSE a1
    IN  Pow2Above(a2, size)

SlabMemalignPcs ==
    { "mm_entry", "mm_bc", "mm_bcswap", "mm_lock", "mm_ins", "mm_ret0", "mm_vmem",
      "mm_rec", "mm_lock2", "mm_ins2", "mm_ret" }

slabmemalign(S, t, o) ==
    LET f == Top(S, t)
    IN  CASE f.pc = "mm_entry" ->
            LET size == AlignSize(f.size, f.align)
                zr == zoneindex(size)
                al2 == IF f.align < PAGE_SIZE THEN PAGE_SIZE ELSE f.align
                sz2 == RoundUpMask(IF size < al2 THEN al2 ELSE size, PAGE_MASK)
            IN  IF f.align < 1 \/ ~IsPow2(f.align) THEN RetRc(S, t, EINVAL, NULL)
                ELSE IF size = 0 THEN RetRc(S, t, ENOMEM, f.ptr)
                ELSE IF size <= MAX_SLAB_PAGEALIGN /\ IsPow2(size) THEN
                    Call(S, t, [f EXCEPT !.pc = "mm_ret"], slaballoc_frame(size, {}))
                ELSE IF size < PAGE_SIZE THEN
                    IF zr.chunking >= f.align
                    THEN Call(S, t, [f EXCEPT !.pc = "mm_ret"], slaballoc_frame(zr.bytes, {}))
                    ELSE Call(S, t, [f EXCEPT !.pc = "mm_ret"],
                              slaballoc_frame(SlabAlignment(f.align, zr.bytes), {}))
                ELSE SetTop(S, t, [f EXCEPT !.align = al2, !.size = sz2,
                                   !.pc = IF al2 = PAGE_SIZE /\ sz2 <= BIGCACHE_LIMIT
                                          THEN "mm_bc" ELSE "mm_vmem"])
          [] f.pc = "mm_ret" -> RetRc(S, t, IF f.rv # NULL THEN 0 ELSE ENOMEM, f.rv)
          [] f.pc = "mm_bc" ->
            LET i == BigcacheScanAlloc(S.bigcache_size_array, f.size)
            IN  IF i < 0 THEN Goto(S, t, "mm_vmem")
                ELSE SetTop([S EXCEPT !.bigcache_size_array[i] = 0], t,
                            [f EXCEPT !.i = i, !.pc = "mm_bcswap"])
          [] f.pc = "mm_bcswap" ->
            LET big == S.bigcache_array[f.i]
                b == S.bigrec[big]
                S1 == [S EXCEPT !.bigcache_array = SwapPtr(@, f.i, NULL)]
                S2 == [S1 EXCEPT !.bigrec[big].active = f.size]
            IN  IF big = NULL THEN Goto(S1, t, "mm_vmem")
                ELSE IF TooSmall(b.bytes, f.size) THEN
                    Call(S1, t, [f EXCEPT !.pc = "mm_vmem"], slabfree_fast_frame(b.base, big))
                ELSE SetTop(IF f.size < b.bytes THEN AddExcess(S2, b.bytes - f.size) ELSE S2,
                            t, [f EXCEPT !.big = big, !.obj = b.base, !.pc = "mm_lock"])
          [] f.pc = "mm_lock" -> Goto(Lock(S, t, BigStripe(f.obj)), t, "mm_ins")
          [] f.pc = "mm_ins" ->
            LET k == BigBucket(f.obj)
            IN  Call(Unlock([S EXCEPT !.bigalloc_array = Put(@, k, <<f.big>> \o GetSeq(@, k))],
                            t, BigStripe(f.obj)),
                     t, [f EXCEPT !.pc = "mm_ret0"], handle_excess_frame)
          [] f.pc = "mm_ret0" -> RetRc(S, t, 0, f.obj)
          [] f.pc = "mm_vmem" ->
            LET r == vmem_alloc(S.maps, f.size, f.align, o)
                S0 == Counted(S)
            IN  IF r.addr = NULL THEN RetRc(S0, t, ENOMEM, NULL)
                ELSE Call([S0 EXCEPT !.maps = r.maps], t,
                          [f EXCEPT !.obj = r.addr, !.pc = "mm_rec"],
                          slaballoc_frame(SizeofBigalloc, {}))
          [] f.pc = "mm_rec" ->
            IF f.rv = NULL THEN
                RetRc([S EXCEPT !.maps = Munmap(@, f.obj, f.size),
                                !.mem = MemSub(@, f.obj, f.obj + f.size)], t, ENOMEM, NULL)
            ELSE SetTop(S, t, [f EXCEPT !.big = f.rv, !.pc = "mm_lock2"])
          [] f.pc = "mm_lock2" -> Goto(Lock(S, t, BigStripe(f.obj)), t, "mm_ins2")
          [] f.pc = "mm_ins2" ->
            LET k == BigBucket(f.obj)
            IN  RetRc(Unlock([S EXCEPT !.bigrec = Put(@, f.big, [base |-> f.obj,
                                                                 active |-> f.size,
                                                                 bytes |-> f.size]),
                                       !.mem = MemWrite(@, f.big, f.big + SizeofBigalloc,
                                                        MetaTag),
                                       !.bigalloc_array =
                                           Put(@, k, <<f.big>> \o GetSeq(@, k))],
                             t, BigStripe(f.obj)), t, 0, f.obj)

(***************************************************************************)
(* The callers: what they hold and what the last call of a thread returned *)
(***************************************************************************)
NoLive == [ptr |-> NULL, size |-> 0, id |-> << >>, op |-> ""]

NoRes ==
    [ op |-> "", size |-> 0, align |-> 0, ptr |-> NULL, rc |-> 0, errno |-> 0,
      id |-> << >>, done |-> TRUE, touched |-> TRUE, old |-> NoLive, snap |-> {},
      oldbig |-> << >>, usable |-> 0, elem |-> 0, kept |-> 0 ]

Threads(S) == DOMAIN S.stk
Idle(S, t) == S.stk[t] = << >>

\* malloc_usable_size(p) as the tables stand (no call in progress on p).
UsableSizeOf(S, p) ==
    LET chain == GetSeq(S.bigalloc_array, BigBucket(p))
        big == ChainFindIn(S.bigrec, chain, p)
        z == ZoneOf(p)
    IN  IF big # NULL THEN S.bigrec[big].base + S.bigrec[big].bytes - p
        ELSE IF z \in DOMAIN S.zone /\ S.zone[z].Magic = ZALLOC_SLAB_MAGIC
        THEN S.zone[z].ChunkSize - ((p - S.zone[z].BasePtr) % S.zone[z].ChunkSize)
        ELSE 0

LiveRec(S, t, ptr) ==
    IF ptr = NULL THEN {}
    ELSE {[ptr |-> ptr, size |-> S.res[t].size, id |-> S.res[t].id, op |-> S.res[t].op]}

\* The order of a thread's calls in a burst of N: N malloc, N free, as many
\* times as scn.bursts says, exit (the first thread; it starts the other
\* threads after its last call, and they call as they like); in
\* a loop: malloc, then a call on the block (realloc or free), and again.
\* With a set-up of K, the first thread makes K calls of malloc before any
\* thread calls as it likes.  With forever = P, the first thread allocates P
\* blocks, frees them all, and starts again, without end (its calls are not
\* counted); the other threads start their calls at the end of a round.
Script(S, t, op) ==
    LET N == S.scn.burst
        End == 2 * N * S.scn.bursts
        mine == {r \in S.live : r.id[1] = t}
        K == S.scn.setup
        P == S.scn.forever
    IN  \/ N = 0 /\ ~S.scn.loop /\ K = 0 /\ P = 0
        \/ P > 0 /\ t = 1 /\ op = "malloc" /\ Cardinality(mine) < P
                 /\ (S.res[1].op # "free" \/ mine = {})
        \/ P > 0 /\ t = 1 /\ op = "free" /\ mine # {}
                 /\ (S.res[1].op = "free" \/ Cardinality(mine) = P)
        \/ P > 0 /\ t # 1 /\ S.stk[1] = << >> /\ S.res[1].op = "free"
                 /\ {r \in S.live : r.id[1] = 1} = {}
        \/ K > 0 /\ t = 1 /\ S.nops[1] < K /\ op = "malloc"
        \/ K > 0 /\ S.nops[1] >= K /\ (t = 1 \/ S.nops[1] > K \/ S.stk[1] = << >>)
        \/ S.scn.loop /\ (op = "malloc" <=> mine = {})
        \/ N > 0 /\ t = 1 /\ op = "malloc" /\ S.nops[t] < End /\ (S.nops[t] \div N) % 2 = 0
        \/ N > 0 /\ t = 1 /\ op = "free" /\ S.nops[t] < End /\ (S.nops[t] \div N) % 2 = 1
        \/ N > 0 /\ t = 1 /\ op = "exit" /\ S.nops[t] >= End
        \/ N > 0 /\ t # 1 /\ S.nops[1] >= End /\ S.stk[1] = << >>

\* A thread may start a call: it is idle, has calls left, and has written the
\* block its last call gave it (if it still holds it).
MayCall(S, t, op) ==
    /\ ~S.malloc_panic
    /\ Script(S, t, op)
    /\ Idle(S, t)
    /\ S.nops[t] < S.scn.calls[t]
    /\ op \in S.scn.ops
    /\ S.res[t].touched \/ LiveRec(S, t, S.res[t].ptr) \cap S.live = {}

\* Entry of a public function: sigblockall() and the call of the worker.
Enter(S, t, op, bottom, callee, r) ==
    [S EXCEPT !.stk[t] = <<callee, [bottom EXCEPT !.pc = op]>>,
              !.sigblock[t] = @ + 1,
              !.nops[t] = IF S.scn.forever > 0 /\ t = 1 THEN @ ELSE @ + 1,
              !.res[t] = [r EXCEPT !.op = op, !.id = <<t, S.nops[t] + 1>>,
                                   !.done = FALSE, !.errno = S.res[t].errno]]

\* Return of a public function: sigunblockall() and the result.
Leave(S, t, r, newlive) ==
    [S EXCEPT !.stk[t] = << >>,
              !.sigblock[t] = @ - 1,
              !.res[t] = [r EXCEPT !.done = TRUE],
              !.live = @ \cup newlive]

\* __malloc() (789-803)
malloc_enter(S, t, size) ==
    Enter(S, t, "malloc", F0, slaballoc_frame(size, {}), [NoRes EXCEPT !.size = size])

malloc_leave(S, t) ==
    LET ptr == Top(S, t).rv
        r == [S.res[t] EXCEPT !.ptr = ptr, !.touched = (ptr = NULL),
                              !.errno = IF ptr = NULL THEN ENOMEM ELSE @]
    IN  Leave(S, t, r, LiveRec(S, t, ptr))

\* MUL_NO_OVERFLOW (805): 1UL << (sizeof(size_t) * 4)
MUL_NO_OVERFLOW == 2 ^ (SizeBits \div 2)

\* The test that looks at the magnitudes only.
CallocOverflowByHalf(number, size) ==
    number >= MUL_NO_OVERFLOW \/ size >= MUL_NO_OVERFLOW

\* __calloc() (810-830)
CallocOverflow(number, size) ==
    /\ number >= MUL_NO_OVERFLOW \/ size >= MUL_NO_OVERFLOW
    /\ number > 0
    /\ (SizeMod - 1) \div number < size

calloc_enter(S, t, number, size) ==
    LET r == [NoRes EXCEPT !.size = (number * size) % SizeMod, !.align = number,
                           !.elem = size]
    IN  IF CallocOverflow(number, size)
        THEN [S EXCEPT !.nops[t] = @ + 1,
                       !.res[t] = [NoRes EXCEPT !.op = "calloc", !.align = number,
                                                !.size = size, !.elem = size,
                                                !.errno = ENOMEM,
                                                !.rc = ENOMEM,
                                                !.id = <<t, S.nops[t] + 1>>]]
        ELSE Enter(S, t, "calloc", F0, slaballoc_frame((number * size) % SizeMod, {"ZERO"}), r)

calloc_leave(S, t) == malloc_leave(S, t)

\* __free() (1053-1061)
free_enter(S, t, r) ==
    Enter([S EXCEPT !.live = @ \ {r}], t, "free", F0, slabfree_frame(r.ptr),
          [NoRes EXCEPT !.old = r])

free_leave(S, t) == Leave(S, t, S.res[t], {})

\* __realloc() (839-853): the caller's view of p is taken when the call starts;
\* kept counts the realloc calls in a row that returned the pointer given.
realloc_enter(S, t, r, size) ==
    LET chain == GetSeq(S.bigalloc_array, BigBucket(r.ptr))
        big == ChainFind(S.bigrec, chain, r.ptr)
        res0 == [NoRes EXCEPT !.size = size, !.old = r,
                              !.snap = MemRel(S.mem, r.ptr, r.size),
                              !.oldbig = IF r.ptr # NULL /\ big # NULL
                                         THEN <<big, S.bigrec[big]>> ELSE << >>,
                              !.usable = IF r.ptr # NULL THEN UsableSizeOf(S, r.ptr) ELSE 0,
                              !.kept = IF S.scn.count THEN S.res[t].kept ELSE 0]
    IN  Enter([S EXCEPT !.live = @ \ {r}], t, "realloc", F0,
              slabrealloc_frame(r.ptr, size), res0)

realloc_leave(S, t) ==
    LET ptr == Top(S, t).rv
        same == S.scn.count /\ ptr # NULL /\ ptr = S.res[t].old.ptr
        r == [S.res[t] EXCEPT !.ptr = ptr, !.errno = IF ptr = NULL THEN ENOMEM ELSE @,
                              !.kept = IF same THEN @ + 1 ELSE @]
    IN  Leave(S, t, r,
              IF ptr # NULL THEN LiveRec(S, t, ptr)
              ELSE IF S.res[t].old.ptr # NULL THEN {S.res[t].old} ELSE {})

\* __malloc_usable_size() (858-862): no sigblockall() here.
usable_size_enter(S, t, r) ==
    [S EXCEPT !.stk[t] = <<slabusablesize_frame(r.ptr), [F0 EXCEPT !.pc = "usable_size"]>>,
              !.nops[t] = @ + 1,
              !.res[t] = [NoRes EXCEPT !.op = "usable_size", !.old = r, !.done = FALSE,
                                       !.errno = S.res[t].errno,
                                       !.id = <<t, S.nops[t] + 1>>]]

usable_size_leave(S, t) ==
    [S EXCEPT !.stk[t] = << >>,
              !.res[t] = [@ EXCEPT !.usable = Top(S, t).rv, !.done = TRUE]]

\* __aligned_alloc() (869-883)
aligned_alloc_enter(S, t, alignment, size) ==
    Enter(S, t, "aligned_alloc", F0, slabmemalign_frame(NULL, alignment, size),
          [NoRes EXCEPT !.size = size, !.align = alignment])

aligned_alloc_leave(S, t) ==
    LET f == Top(S, t)
        r == [S.res[t] EXCEPT !.ptr = f.rv, !.rc = f.i, !.touched = (f.rv = NULL),
                              !.errno = IF f.i # 0 THEN f.i ELSE @]
    IN  Leave(S, t, r, LiveRec(S, t, f.rv))

\* __posix_memalign() (891-909): m0 is what *memptr held before the call.
posix_memalign_enter(S, t, m0, alignment, size) ==
    IF alignment < SizeofPtr
    THEN [S EXCEPT !.nops[t] = @ + 1,
                   !.res[t] = [NoRes EXCEPT !.op = "posix_memalign", !.align = alignment,
                                            !.size = size, !.rc = EINVAL,
                                            !.errno = S.res[t].errno,
                                            !.id = <<t, S.nops[t] + 1>>]]
    ELSE Enter(S, t, "posix_memalign", F0, slabmemalign_frame(m0, alignment, size),
               [NoRes EXCEPT !.size = size, !.align = alignment])

posix_memalign_leave(S, t) ==
    LET f == Top(S, t)
        ok == f.i = 0
        r == [S.res[t] EXCEPT !.ptr = f.rv, !.rc = f.i, !.touched = ~ok]
    IN  Leave(S, t, r, IF ok THEN LiveRec(S, t, f.rv) ELSE {})

\* The caller writes the bytes it asked for into a block it was just given
\* (as far as malloc_usable_size() says the block reaches).
touch(S, t) ==
    LET r == S.res[t]
        n == Min(r.size, UsableSizeOf(S, r.ptr))
    IN  [S EXCEPT !.mem = MemWrite(@, r.ptr, r.ptr + n, r.ptr),
                  !.res[t].touched = TRUE]

(***************************************************************************)
(* zoneindex() (697-770) called on its own, on any byte count              *)
(***************************************************************************)
zoneindex_enter(S, t, n) ==
    [S EXCEPT !.stk[t] = <<[F0 EXCEPT !.pc = "zoneindex", !.size = n]>>,
              !.nops[t] = @ + 1,
              !.res[t] = [NoRes EXCEPT !.op = "zoneindex", !.size = n, !.done = FALSE,
                                       !.id = <<t, S.nops[t] + 1>>]]

\* The return value in rc, *bytes in usable, *chunking in align; or _mpanic.
zoneindex_leave(S, t) ==
    LET zr == zoneindex(Top(S, t).size)
    IN  IF zr.chunking = 0 THEN Panic(S)
        ELSE [S EXCEPT !.stk[t] = << >>,
                       !.res[t] = [@ EXCEPT !.done = TRUE, !.rc = zr.zi, !.usable = zr.bytes,
                                            !.align = zr.chunking]]

(***************************************************************************)
(* fork(): the hooks the thread library runs around it (nmalloc.c 436-461) *)
(***************************************************************************)
prepfork_frame == [F0 EXCEPT !.pc = "pf_zonemag"]
parentfork_frame == [F0 EXCEPT !.pc = "pp_depot"]
childfork_frame == [F0 EXCEPT !.pc = "cf_depot"]

NmallocThrPrepforkPcs == {"pf_zonemag", "pf_depot"}
NmallocThrParentforkPcs == {"pp_depot", "pp_zonemag"}
NmallocThrChildforkPcs == {"cf_depot", "cf_zonemag"}

\* _nmalloc_thr_prepfork() (436-443)
nmalloc_thr_prepfork(S, t) ==
    LET f == Top(S, t)
    IN  CASE f.pc = "pf_zonemag" -> Goto(Lock(S, t, ZoneMagLock), t, "pf_depot")
          [] f.pc = "pf_depot" -> Ret(Lock(S, t, DepotLock), t, NULL)

\* _nmalloc_thr_parentfork() (445-452)
nmalloc_thr_parentfork(S, t) ==
    LET f == Top(S, t)
    IN  CASE f.pc = "pp_depot" -> Goto(Unlock(S, t, DepotLock), t, "pp_zonemag")
          [] f.pc = "pp_zonemag" -> Ret(Unlock(S, t, ZoneMagLock), t, NULL)

\* _nmalloc_thr_childfork() (454-461)
nmalloc_thr_childfork(S, t) ==
    LET f == Top(S, t)
    IN  CASE f.pc = "cf_depot" -> Goto(Unlock(S, t, DepotLock), t, "cf_zonemag")
          [] f.pc = "cf_zonemag" -> Ret(Unlock(S, t, ZoneMagLock), t, NULL)

\* A thread forks before its first call, once in a behaviour.
MayFork(S, t) ==
    /\ ~S.malloc_panic
    /\ Idle(S, t)
    /\ "fork" \in S.scn.ops
    /\ S.nops[t] = 0
    /\ \A u \in Threads(S) : S.res[u].op \notin {"fork", "gone"}

\* fork() is called: the thread library runs the prepare hook first.
fork_enter(S, t) ==
    [S EXCEPT !.stk[t] = <<prepfork_frame, [F0 EXCEPT !.pc = "fork"]>>,
              !.res[t] = [NoRes EXCEPT !.op = "fork", !.done = FALSE]]

\* The process after fork() in the parent: the parent hook runs.
fork_parent(S, t) ==
    [S EXCEPT !.stk[t] = <<parentfork_frame, [F0 EXCEPT !.pc = "fork_parent"]>>]

\* The process after fork() in the child: a copy of the memory, of the threads
\* only the one that forked; the child hook runs.
fork_child(S, t) ==
    [S EXCEPT !.stk = [u \in DOMAIN S.stk |->
                          IF u = t THEN <<childfork_frame, [F0 EXCEPT !.pc = "fork_child"]>>
                          ELSE << >>],
              !.res = [u \in DOMAIN S.res |->
                          IF u = t THEN S.res[u] ELSE [NoRes EXCEPT !.op = "gone"]],
              !.nops = [u \in DOMAIN S.nops |-> IF u = t THEN S.nops[u] ELSE S.scn.calls[u]],
              !.sigblock = [u \in DOMAIN S.sigblock |-> IF u = t THEN S.sigblock[u] ELSE 0]]

\* fork() returns: 0 in the child, the child's pid (1 here) in the parent.
fork_leave(S, t) ==
    [S EXCEPT !.stk[t] = << >>,
              !.res[t] = [@ EXCEPT !.done = TRUE,
                                   !.rc = IF Top(S, t).pc = "fork_child" THEN 0 ELSE 1]]

(***************************************************************************)
(* Thread exit: mtmagazine_destructor() and mtmagazine_drain() (1942-2009) *)
(***************************************************************************)
destructor_frame == [F0 EXCEPT !.pc = "md_top"]
drain_frame(mp) == [F0 EXCEPT !.pc = "dr_top", !.big = mp]

\* A magazine that is dropped without being freed.
MdFreeLeaked(S, t, cont, mp) == SetTop([S EXCEPT !.mag = Del(@, mp)], t, cont)

\* _slabfree(mp, 0, NULL) of a magazine (1992, 2000, 2006): it is a chunk again.
MdFree(S, t, cont, mp) ==
    Call([S EXCEPT !.mag = Del(@, mp)], t, cont, slabfree_frame(mp))

\* if (tp->newmag) ... and nmalloc_sigunblockall() (2003-2008)
MdNewmag(S, t) ==
    LET f == Top(S, t)
        mp == S.thread_mags[t].newmag
    IN  IF mp # NULL
        THEN Call([S EXCEPT !.thread_mags[t].newmag = NULL], t, [f EXCEPT !.pc = "md_done"],
                  slabfree_frame(mp))
        ELSE Ret([S EXCEPT !.sigblock[t] = @ - 1], t, NULL)

\* The for loop from class i on, up to its next call: the loaded magazine of
\* the class (1987-1993) when which = "loaded", its previous one (1995-2001)
\* when which = "prev".
MdLoop(S, t, i, which) ==
    LET f == Top(S, t)
        tp == S.thread_mags[t]
        \* the classes still to visit whose slots are not both NULL
        zs == {zi \in DOMAIN tp.mags :
                  zi > i \/ (zi = i /\ (which = "loaded" \/ tp.mags[zi].prev # NULL))}
        zi == SetMin(zs)
        pair == tp.mags[zi]
        w == IF (zi > i \/ which = "loaded") /\ pair.loaded # NULL THEN "loaded" ELSE "prev"
        mp == IF w = "loaded" THEN pair.loaded ELSE pair.prev
        S1 == SetPair(S, t, zi, IF w = "loaded" THEN [pair EXCEPT !.loaded = NULL]
                                ELSE [pair EXCEPT !.prev = NULL])
        after == IF w = "loaded" THEN "md_prev" ELSE "md_next"
    IN  IF zs = {} THEN MdNewmag(S, t)
        ELSE IF MAGAZINE_NOTEMPTY(S.mag[mp]) THEN
            Call(S1, t, [f EXCEPT !.pc = "md_drained", !.i = zi, !.big = mp, !.xs = <<after>>],
                 drain_frame(mp))
        ELSE MdFree(S1, t, [f EXCEPT !.pc = after, !.i = zi], mp)

MtMagazineDestructorPcs == { "md_top", "md_drained", "md_prev", "md_next", "md_done" }

mtmagazine_destructor(S, t) ==
    LET f == Top(S, t)
    IN  CASE f.pc = "md_top" ->
            IF S.scn.exiting THEN Ret(S, t, NULL)
            ELSE MdLoop([S EXCEPT !.thread_mags[t].init = -1, !.sigblock[t] = @ + 1],
                        t, 0, "loaded")
          [] f.pc = "md_drained" -> MdFree(S, t, [f EXCEPT !.pc = f.xs[1]], f.big)
          [] f.pc = "md_prev" -> MdLoop(S, t, f.i, "prev")
          [] f.pc = "md_next" -> MdLoop(S, t, f.i + 1, "loaded")
          [] f.pc = "md_done" -> Ret([S EXCEPT !.sigblock[t] = @ - 1], t, NULL)

MtMagazineDrainPcs == { "dr_top", "dr_loop", "dr_done" }

\* mtmagazine_drain() (1945-1956)
mtmagazine_drain(S, t) ==
    LET f == Top(S, t)
        mp == f.big
        objs == S.mag[mp].objs
    IN  CASE f.pc = "dr_top" -> Goto([S EXCEPT !.sigblock[t] = @ + 1], t, "dr_loop")
          [] f.pc = "dr_loop" ->
            IF MAGAZINE_NOTEMPTY(S.mag[mp])
            THEN Call([S EXCEPT !.mag[mp].objs = magazine_alloc(objs)], t, f,
                      slabfree_frame(objs[Len(objs)]))
            ELSE Goto(S, t, "dr_done")
          [] f.pc = "dr_done" -> Ret([S EXCEPT !.sigblock[t] = @ - 1], t, NULL)

\* What the magazines of thread t hold: the cached objects and the magazines.
CachedBy(S, t) ==
    LET tp == S.thread_mags[t]
        mps == UNION {{tp.mags[zi].loaded, tp.mags[zi].prev} : zi \in DOMAIN tp.mags} \ {NULL}
    IN  [objs |-> UNION {SeqSet(S.mag[mp].objs) : mp \in mps},
         mags |-> mps \cup ({tp.newmag} \ {NULL})]

\* The thread library runs the destructor of a thread that registered its
\* magazines (_pthread_setspecific in _nmalloc_thr_init, 432); rc keeps the
\* value of tp->init and snap what the magazines held when it started.
thread_exit_enter(S, t) ==
    [S EXCEPT !.stk[t] = <<destructor_frame, [F0 EXCEPT !.pc = "exit"]>>,
              !.nops[t] = @ + 1,
              !.res[t] = [NoRes EXCEPT !.op = "exit", !.id = <<t, S.nops[t] + 1>>,
                                       !.done = FALSE, !.errno = S.res[t].errno,
                                       !.rc = S.thread_mags[t].init,
                                       !.snap = CachedBy(S, t).objs \cup CachedBy(S, t).mags]]

thread_exit_leave(S, t) == [S EXCEPT !.stk[t] = << >>, !.res[t].done = TRUE]

(***************************************************************************)
(* Scheduling: which thread may take its next step                         *)
(***************************************************************************)
\* The lock the frame is about to acquire (-1: none).
WantLock(f) ==
    IF f.pc \in {"sa_biglock", "sf_biglock", "sr_biglock", "sr_relock", "us_biglock"}
        THEN BigStripe(f.ptr)
    ELSE IF f.pc \in {"mm_lock", "mm_lock2"} THEN BigStripe(f.obj)
    ELSE IF f.pc = "he_lock" THEN f.i % BIGXSIZE
    ELSE IF f.pc \in {"sa_newlock", "sa_lock", "sf_slab"} THEN SlgdLock
    ELSE IF f.pc \in {"ma_dlock", "mf_dlock"} THEN DepotLock
    ELSE IF f.pc \in {"za_lock", "zf_lock", "pf_zonemag"} THEN ZoneMagLock
    ELSE IF f.pc = "pf_depot" THEN DepotLock
    ELSE -1

\* Thread t is inside one of the functions whose labels are pcs and does not spin.
At(t, pcs) ==
    /\ ~malloc_panic
    /\ ~Idle(Cur, t)
    /\ Top(Cur, t).pc \in pcs
    /\ WantLock(Top(Cur, t)) = -1 \/ CanLock(Cur, WantLock(Top(Cur, t)))

NoChoice == [m1 |-> "lo", m2 |-> "lo", m3 |-> "lo"]

\* The kernel's choices open to the step thread t is about to take.
Oracle(t) ==
    IF Top(Cur, t).pc \in {"sa_vmem", "za_vmem", "mm_vmem"} THEN scn.vm ELSE {NoChoice}

FixedOracle(t) ==
    IF Top(Cur, t).pc = "sr_bigscan" THEN scn.fixed ELSE {"lo"}

\* The pointers a caller may pass: the ones it holds (its own, or anybody's
\* when the scenario lets blocks travel between threads), and NULL.
Args(t) ==
    IF scn.forever > 0
    THEN {r \in live : r.id[1] = t /\ \A q \in live : q.id[1] = t => q.ptr <= r.ptr}
    ELSE IF scn.burst > 0
    THEN {r \in live : r.id[1] = t /\ \A q \in live : q.id[1] = t => q.id[2] <= r.id[2]}
    ELSE {r \in live : scn.cross \/ r.id[1] = t} \cup (IF scn.nullp THEN {NoLive} ELSE {})

\* The sizes a caller may pass to realloc: with a step, its i-th call in a
\* row asks for the first size plus i steps.
ReallocSizes(t) ==
    IF scn.step > 0 THEN {s + nops[t] * scn.step : s \in scn.sizes} ELSE scn.rsizes

(***************************************************************************)
(* Actions                                                                 *)
(***************************************************************************)
Malloc ==
    \E t \in Threads(Cur) :
        IF Idle(Cur, t)
        THEN /\ MayCall(Cur, t, "malloc")
             /\ \E size \in scn.sizes : Commit(malloc_enter(Cur, t, size))
        ELSE /\ Top(Cur, t).pc = "malloc"
             /\ Commit(malloc_leave(Cur, t))

Calloc ==
    \E t \in Threads(Cur) :
        IF Idle(Cur, t)
        THEN /\ MayCall(Cur, t, "calloc")
             /\ \E number \in scn.nums, size \in scn.sizes :
                    Commit(calloc_enter(Cur, t, number, size))
        ELSE /\ Top(Cur, t).pc = "calloc"
             /\ Commit(calloc_leave(Cur, t))

Realloc ==
    \E t \in Threads(Cur) :
        IF Idle(Cur, t)
        THEN /\ MayCall(Cur, t, "realloc")
             /\ \E r \in Args(t), size \in ReallocSizes(t) :
                    Commit(realloc_enter(Cur, t, r, size))
        ELSE /\ Top(Cur, t).pc = "realloc"
             /\ Commit(realloc_leave(Cur, t))

Free ==
    \E t \in Threads(Cur) :
        IF Idle(Cur, t)
        THEN /\ MayCall(Cur, t, "free")
             /\ \E r \in Args(t) : Commit(free_enter(Cur, t, r))
        ELSE /\ Top(Cur, t).pc = "free"
             /\ Commit(free_leave(Cur, t))

MallocUsableSize ==
    \E t \in Threads(Cur) :
        IF Idle(Cur, t)
        THEN /\ MayCall(Cur, t, "usable_size")
             /\ \E r \in Args(t) : Commit(usable_size_enter(Cur, t, r))
        ELSE /\ Top(Cur, t).pc = "usable_size"
             /\ Commit(usable_size_leave(Cur, t))

AlignedAlloc ==
    \E t \in Threads(Cur) :
        IF Idle(Cur, t)
        THEN /\ MayCall(Cur, t, "aligned_alloc")
             /\ \E a \in scn.aligns, size \in scn.asizes :
                    Commit(aligned_alloc_enter(Cur, t, a, size))
        ELSE /\ Top(Cur, t).pc = "aligned_alloc"
             /\ Commit(aligned_alloc_leave(Cur, t))

PosixMemalign ==
    \E t \in Threads(Cur) :
        IF Idle(Cur, t)
        THEN /\ MayCall(Cur, t, "posix_memalign")
             /\ \E a \in scn.aligns, size \in scn.asizes :
                    Commit(posix_memalign_enter(Cur, t, AddrTop, a, size))
        ELSE /\ Top(Cur, t).pc = "posix_memalign"
             /\ Commit(posix_memalign_leave(Cur, t))

Touch ==
    \E t \in Threads(Cur) :
        /\ ~malloc_panic
        /\ Idle(Cur, t)
        /\ ~res[t].touched
        /\ LiveRec(Cur, t, res[t].ptr) \cap live # {}
        /\ Commit(touch(Cur, t))

SlabAlloc ==
    \E t \in Threads(Cur) :
        /\ At(t, SlabAllocPcs)
        /\ \E o \in Oracle(t) : Commit(slaballoc(Cur, t, o))

ZoneAlloc ==
    \E t \in Threads(Cur) :
        /\ At(t, ZoneAllocPcs)
        /\ \E o \in Oracle(t) : Commit(zone_alloc(Cur, t, o))

MtMagazineAlloc ==
    \E t \in Threads(Cur) : At(t, MtMagazineAllocPcs) /\ Commit(mtmagazine_alloc(Cur, t))

SlabFree ==
    \E t \in Threads(Cur) : At(t, SlabFreePcs) /\ Commit(slabfree(Cur, t))

ZoneFree ==
    \E t \in Threads(Cur) : At(t, ZoneFreePcs) /\ Commit(zone_free(Cur, t))

MtMagazineFree ==
    \E t \in Threads(Cur) : At(t, MtMagazineFreePcs) /\ Commit(mtmagazine_free(Cur, t))

HandleExcessBig ==
    \E t \in Threads(Cur) : At(t, HandleExcessPcs) /\ Commit(handle_excess_big(Cur, t))

SlabRealloc ==
    \E t \in Threads(Cur) :
        /\ At(t, SlabReallocPcs)
        /\ \E om \in FixedOracle(t) : Commit(slabrealloc(Cur, t, om))

SlabUsableSize ==
    \E t \in Threads(Cur) : At(t, SlabUsableSizePcs) /\ Commit(slabusablesize(Cur, t))

SlabMemalign ==
    \E t \in Threads(Cur) :
        /\ At(t, SlabMemalignPcs)
        /\ \E o \in Oracle(t) : Commit(slabmemalign(Cur, t, o))

Fork ==
    \E t \in Threads(Cur) :
        IF Idle(Cur, t)
        THEN /\ MayFork(Cur, t)
             /\ Commit(fork_enter(Cur, t))
        ELSE /\ ~malloc_panic
             /\ \/ /\ Top(Cur, t).pc = "fork"
                   /\ \/ Commit(fork_parent(Cur, t))
                      \/ Commit(fork_child(Cur, t))
                \/ /\ Top(Cur, t).pc \in {"fork_parent", "fork_child"}
                   /\ Commit(fork_leave(Cur, t))

NmallocThrPrepfork ==
    \E t \in Threads(Cur) :
        /\ At(t, NmallocThrPrepforkPcs)
        /\ Commit(nmalloc_thr_prepfork(Cur, t))

NmallocThrParentfork ==
    \E t \in Threads(Cur) :
        /\ At(t, NmallocThrParentforkPcs)
        /\ Commit(nmalloc_thr_parentfork(Cur, t))

NmallocThrChildfork ==
    \E t \in Threads(Cur) :
        /\ At(t, NmallocThrChildforkPcs)
        /\ Commit(nmalloc_thr_childfork(Cur, t))

Zoneindex ==
    \E t \in Threads(Cur) :
        IF Idle(Cur, t)
        THEN /\ MayCall(Cur, t, "zoneindex")
             /\ \E n \in scn.sizes : Commit(zoneindex_enter(Cur, t, n))
        ELSE /\ ~malloc_panic
             /\ Top(Cur, t).pc = "zoneindex"
             /\ Commit(zoneindex_leave(Cur, t))

ThreadExit ==
    \E t \in Threads(Cur) :
        IF Idle(Cur, t)
        THEN /\ MayCall(Cur, t, "exit")
             /\ thread_mags[t].init # 0
             /\ Commit(thread_exit_enter(Cur, t))
        ELSE /\ ~malloc_panic
             /\ Top(Cur, t).pc = "exit"
             /\ Commit(thread_exit_leave(Cur, t))

MtMagazineDestructor ==
    \E t \in Threads(Cur) :
        /\ At(t, MtMagazineDestructorPcs)
        /\ Commit(mtmagazine_destructor(Cur, t))

MtMagazineDrain ==
    \E t \in Threads(Cur) :
        /\ At(t, MtMagazineDrainPcs)
        /\ Commit(mtmagazine_drain(Cur, t))

(***************************************************************************)
(* Initial states: the process after malloc_init(), for each scenario      *)
(***************************************************************************)
VmOK ==
    { [m1 |-> "lo", m2 |-> "hint", m3 |-> "lo"],
      [m1 |-> "skew", m2 |-> "lo", m3 |-> "lo"] }
VmFail ==
    { [m1 |-> "fail", m2 |-> "fail", m3 |-> "fail"] }

\* A scenario: the threads (tp->init of each), __isthreaded, MALLOC_OPTIONS Z,
\* __isexiting, and what the callers may do (burst = N > 0: each thread
\* allocates N blocks, frees them all, last first, and exits; loop: each
\* thread holds one block at a time; count: vmem_calls and kept count;
\* step: realloc grows the block by so much each time).
Scn0 ==
    [ init |-> <<0>>, threaded |-> FALSE, z |-> FALSE, calls |-> <<MaxOps>>,
      ops |-> {}, sizes |-> {}, nums |-> {}, rsizes |-> {}, aligns |-> {}, asizes |-> {},
      vm |-> {NoChoice}, fixed |-> {"lo"}, cross |-> TRUE, nullp |-> FALSE,
      exiting |-> FALSE, burst |-> 0, loop |-> FALSE, count |-> FALSE,
      step |-> 0, bursts |-> 1, setup |-> 0, forever |-> 0 ]

InitOf(sc) ==
    /\ g_malloc_flags = IF sc.z THEN {"ZERO"} ELSE {}
    /\ isthreaded = sc.threaded
    /\ locks = EmptyMap
    /\ ZoneAry = EmptyMap
    /\ zone = EmptyMap
    /\ zone_magazine = [capacity |-> M_ZONE_INIT_ROUNDS, objs |-> << >>]
    /\ depots = EmptyMap
    /\ mag = EmptyMap
    /\ thread_mags = [t \in 1..Len(sc.init) |->
                         [mags |-> EmptyMap, newmag |-> NULL, init |-> sc.init[t]]]
    /\ bigalloc_array = EmptyMap
    /\ bigrec = EmptyMap
    /\ bigcache_array = [i \in 0..(BIGCACHE - 1) |-> NULL]
    /\ bigcache_size_array = [i \in 0..(BIGCACHE - 1) |-> 0]
    /\ bigcache_index = 0
    /\ excess_alloc = 0
    /\ malloc_panic = FALSE
    /\ maps = {}
    /\ mem = {}
    /\ stk = [t \in 1..Len(sc.init) |-> << >>]
    /\ res = [t \in 1..Len(sc.init) |-> NoRes]
    /\ live = {}
    /\ sigblock = [t \in 1..Len(sc.init) |-> 0]
    /\ nops = [t \in 1..Len(sc.init) |-> 0]
    /\ vmem_calls = 0
    /\ scn = sc

\* The largest size_t, and sizes around the bigcache and excess limits.
SIZE_MAX == SizeMod - 1
MiB == 1024 * 1024

\* malloc(s); free(p), more often than the bigcache has slots.
Recycle(s) ==
    [Scn0 EXCEPT !.ops = {"malloc", "free"}, !.sizes = {s}, !.loop = TRUE, !.count = TRUE,
                 !.calls = <<2 * (BIGCACHE + MaxOps)>>]

\* p = malloc(100 KiB); p = realloc(p, 100 KiB + i * 4 KiB) for i = 1..n, the
\* adjacent mappings failing, succeeding where the addresses are free, or either.
Grows == 100
GrowsMixed == 32

Grow(fixed, n) ==
    [Scn0 EXCEPT !.ops = {"malloc", "realloc"}, !.sizes = {100 * 1024}, !.step = PAGE_SIZE,
                 !.loop = TRUE, !.count = TRUE, !.fixed = fixed, !.calls = <<n + 1>>]

\* One thread, every entry point.
Scenarios ==
    { [Scn0 EXCEPT !.ops = {"malloc", "free", "usable_size"}, !.nullp = TRUE,
                   !.sizes = {0, 1, 64, 4096, 8192, 12288, 16384, 20480, SIZE_MAX}],
      [Scn0 EXCEPT !.ops = {"malloc", "realloc"}, !.nullp = TRUE,
                   !.sizes = {0, 24, 20480}, !.fixed = {"lo", "fail"},
                   !.rsizes = {0, 20, 100, 12288, 20480, 24576, SIZE_MAX}],
      [Scn0 EXCEPT !.ops = {"malloc", "calloc", "free"}, !.sizes = {24, 8192, 20480},
                   !.nums = {1}],
      [Scn0 EXCEPT !.ops = {"malloc", "calloc", "free"}, !.sizes = {24, 8192},
                   !.nums = {1}, !.init = <<-1>>],
      [Scn0 EXCEPT !.ops = {"malloc", "free", "aligned_alloc"}, !.z = TRUE,
                   !.sizes = {24, 20480}, !.aligns = {4096}, !.asizes = {20480}],
      [Scn0 EXCEPT !.ops = {"aligned_alloc", "posix_memalign"}, !.calls = <<MaxOps - 1>>,
                   !.aligns = {0, 4, 24, 256, 16384},
                   !.asizes = {100, 513, 5000, SIZE_MAX - 15}, !.vm = VmOK],
      [Scn0 EXCEPT !.ops = {"malloc", "free", "posix_memalign"}, !.sizes = {20480},
                   !.aligns = {4096}, !.asizes = {20480}],
      [Scn0 EXCEPT !.ops = {"malloc", "realloc"}, !.sizes = {24, 20480},
                   !.rsizes = {20480, 65536}, !.vm = {NoChoice} \cup VmFail,
                   !.fixed = {"fail"}],
      [Scn0 EXCEPT !.ops = {"malloc", "realloc"}, !.sizes = {20480, 36 * MiB},
                   !.rsizes = {18 * MiB + PAGE_SIZE}, !.calls = <<MaxOps + 1>>],
      [Scn0 EXCEPT !.ops = {"calloc"}, !.calls = <<MaxOps - 2>>,
                   !.nums = {0, 1, 3, MUL_NO_OVERFLOW - 1, MUL_NO_OVERFLOW,
                             MUL_NO_OVERFLOW + 1, SIZE_MAX},
                   !.sizes = {0, 1, 24, MUL_NO_OVERFLOW - 1, MUL_NO_OVERFLOW,
                              MUL_NO_OVERFLOW + 1, SIZE_MAX \div 3,
                              SIZE_MAX \div 3 + 1, SIZE_MAX}],
      [Scn0 EXCEPT !.init = <<1>>, !.threaded = TRUE, !.calls = <<MaxOps - 1>>,
                   !.ops = {"malloc", "free", "usable_size"}, !.sizes = {24, 20480}],
      [Scn0 EXCEPT !.ops = {"malloc", "realloc", "free"}, !.sizes = {5 * PAGE_SIZE},
                   !.rsizes = {3 * PAGE_SIZE}, !.calls = <<MaxOps + 2>>],
      [Scn0 EXCEPT !.init = <<1>>, !.threaded = TRUE, !.ops = {"malloc", "realloc"},
                   !.sizes = {5 * PAGE_SIZE, 36 * MiB}, !.fixed = {"lo", "fail"},
                   !.rsizes = {3 * PAGE_SIZE, 6 * PAGE_SIZE, 18 * MiB + PAGE_SIZE},
                   !.calls = <<MaxOps + 1>>],
      Recycle(5 * PAGE_SIZE), Recycle(4 * PAGE_SIZE), Recycle(BIGCACHE_LIMIT - PAGE_SIZE),
      Grow({"fail"}, Grows), Grow({"lo"}, Grows), Grow({"lo", "fail"}, GrowsMixed) }

Init == \E sc \in Scenarios : InitOf(sc)

Next ==
    \/ Malloc
    \/ Calloc
    \/ Realloc
    \/ Free
    \/ MallocUsableSize
    \/ AlignedAlloc
    \/ PosixMemalign
    \/ Touch
    \/ SlabAlloc
    \/ ZoneAlloc
    \/ MtMagazineAlloc
    \/ SlabFree
    \/ ZoneFree
    \/ MtMagazineFree
    \/ HandleExcessBig
    \/ SlabRealloc
    \/ SlabUsableSize
    \/ SlabMemalign

Spec == Init /\ [][Next]_vars

\* A thread fills the depot of the last size class with a burst of k
\* magazines' worth of objects; two more threads then allocate and free.
DepotRace(k) ==
    [Scn0 EXCEPT !.init = <<1, 1, 1>>, !.threaded = TRUE, !.ops = {"malloc", "free"},
                 !.sizes = {ZoneLimit - 1}, !.burst = k * zonecapacity(NZONES - 1),
                 !.calls = <<2 * k * zonecapacity(NZONES - 1), MaxOps, MaxOps - 1>>]

\* Two threads whose calls interleave: both with magazines, on small chunks
\* and on big blocks, both past their teardown (slab paths only), three
\* threads of which two are past their teardown, and two threads on the
\* largest chunks, three to a zone.
ScenariosMT ==
    { [Scn0 EXCEPT !.init = <<1, 1>>, !.threaded = TRUE, !.ops = {"malloc", "free"},
                   !.sizes = {24}, !.calls = <<MaxOps - 1, MaxOps - 1>>],
      [Scn0 EXCEPT !.init = <<1, 1>>, !.threaded = TRUE, !.ops = {"malloc", "free"},
                   !.sizes = {20480}, !.calls = <<MaxOps - 1, MaxOps - 2>>],
      [Scn0 EXCEPT !.init = <<1, 1>>, !.threaded = TRUE, !.ops = {"malloc", "realloc"},
                   !.sizes = {24}, !.rsizes = {20480}, !.calls = <<MaxOps - 1, MaxOps - 2>>],
      [Scn0 EXCEPT !.init = <<-1, -1>>, !.threaded = TRUE, !.ops = {"calloc", "free"},
                   !.sizes = {24}, !.nums = {1}, !.calls = <<MaxOps - 1, MaxOps - 1>>],
      [Scn0 EXCEPT !.init = <<1, -1, -1>>, !.threaded = TRUE, !.ops = {"malloc", "free"},
                   !.sizes = {24}, !.calls = <<MaxOps - 2, MaxOps - 2, MaxOps - 2>>],
      [Scn0 EXCEPT !.init = <<-1, -1>>, !.threaded = TRUE, !.ops = {"malloc", "free"},
                   !.sizes = {ZoneLimit - 1}, !.calls = <<MaxOps + 1, MaxOps - 1>>] }

InitMT == \E sc \in ScenariosMT : InitOf(sc)

NextMT ==
    \/ Malloc
    \/ Calloc
    \/ Realloc
    \/ Free
    \/ Touch
    \/ SlabAlloc
    \/ ZoneAlloc
    \/ MtMagazineAlloc
    \/ SlabFree
    \/ ZoneFree
    \/ MtMagazineFree
    \/ HandleExcessBig
    \/ SlabRealloc

SpecMT == InitMT /\ [][NextMT]_vars

\* A thread that fills two magazines and one more chunk, empties them, and
\* starts again without end, so that the depot of the class has a full
\* magazine in one half of each round and none in the other; a second thread
\* makes one call of malloc.
DepotForever ==
    [Scn0 EXCEPT !.init = <<1, 1>>, !.threaded = TRUE, !.ops = {"malloc", "free"},
                 !.sizes = {ZoneLimit - 1}, !.forever = 2 * zonecapacity(NZONES - 1) + 1,
                 !.calls = <<1, 1>>]

\* Two threads at the depot that a third one has filled, and a thread at the
\* depot that another one fills and empties without end.
ScenariosDepot == { DepotRace(2), DepotRace(3), DepotForever }

InitDepot == \E sc \in ScenariosDepot : InitOf(sc)

NextDepot ==
    \/ Malloc
    \/ Free
    \/ Touch
    \/ SlabAlloc
    \/ ZoneAlloc
    \/ MtMagazineAlloc
    \/ SlabFree
    \/ MtMagazineFree

SpecDepot == InitDepot /\ [][NextDepot]_vars

\* What a step of thread t changes: its stack, or the record of its last call.
ThreadVars(t) == IF t \in DOMAIN stk THEN <<stk[t], res[t]>> ELSE << >>

\* Thread t is inside a call and can take its next step: it does not spin on
\* a lock that another thread holds.
Running(t) ==
    /\ t \in DOMAIN stk
    /\ stk[t] # << >>
    /\ ~malloc_panic
    /\ WantLock(Head(stk[t])) = -1 \/ CanLock(Cur, WantLock(Head(stk[t])))

\* A step of thread t.  Every step of NextDepot that changes ThreadVars(t) is
\* one, and thread t can take one exactly when Running(t) holds; the first
\* disjunct (the top frame leaves the stack) states a step that shows this
\* without working out the step the code takes.
ThreadStep(t) ==
    /\ Running(t)
    /\ \/ stk' = [stk EXCEPT ![t] = Tail(@)] /\ res' = res
       \/ NextDepot

\* Fairness of the steps of every thread: a thread that is inside a call and
\* can take its next step again and again takes it sooner or later (the
\* threads run on their own processors, and a thread that spins on a lock
\* which is released again and again gets it in the end).  Every behaviour
\* that is strongly fair is weakly fair as well.
SpecDepotFair ==
    SpecDepot /\ \A t \in 1..3 : SF_(ThreadVars(t))(ThreadStep(t))

\* The first thread allocates big blocks of two sizes that the bigcache takes;
\* then it and a second thread free them and allocate again.
ScenariosBigcache ==
    { [Scn0 EXCEPT !.init = <<1, 1>>, !.threaded = TRUE, !.ops = {"malloc", "free"},
                   !.sizes = {5 * PAGE_SIZE, 7 * PAGE_SIZE}, !.setup = MaxOps - 1,
                   !.calls = <<MaxOps, MaxOps - 1>>] }

InitBigcache == \E sc \in ScenariosBigcache : InitOf(sc)

NextBigcache ==
    \/ Malloc
    \/ Free
    \/ Touch
    \/ SlabAlloc
    \/ ZoneAlloc
    \/ MtMagazineAlloc
    \/ SlabFree
    \/ MtMagazineFree
    \/ HandleExcessBig

SpecBigcache == InitBigcache /\ [][NextBigcache]_vars

\* A thread forks while the other thread is at any point of its call.
ScenariosFork ==
    { [Scn0 EXCEPT !.init = <<1, 1>>, !.threaded = TRUE, !.ops = {"malloc", "free", "fork"},
                   !.sizes = {24}, !.calls = <<MaxOps - 2, MaxOps - 2>>],
      [Scn0 EXCEPT !.init = <<1, 1>>, !.threaded = TRUE, !.ops = {"malloc", "free", "fork"},
                   !.sizes = {20480}, !.calls = <<MaxOps - 2, MaxOps - 2>>] }

InitFork == \E sc \in ScenariosFork : InitOf(sc)

NextFork ==
    \/ Malloc
    \/ Free
    \/ Touch
    \/ SlabAlloc
    \/ ZoneAlloc
    \/ MtMagazineAlloc
    \/ SlabFree
    \/ MtMagazineFree
    \/ HandleExcessBig
    \/ Fork
    \/ NmallocThrPrepfork
    \/ NmallocThrParentfork
    \/ NmallocThrChildfork

SpecFork == InitFork /\ [][NextFork]_vars

(***************************************************************************)
(* Views of the state used by the properties                               *)
(***************************************************************************)
\* The magazines of the threads (loaded and previous) and of the depots.
ThreadMags ==
    UNION { {MagPair(thread_mags[t], zi).loaded, MagPair(thread_mags[t], zi).prev} :
            t \in DOMAIN thread_mags, zi \in 0..(NZONES - 1) } \ {NULL}

DepotMags ==
    UNION { SeqSet(depots[zi].full) \cup SeqSet(depots[zi].empty) : zi \in DOMAIN depots }

InThreadMag(p) == \E m \in ThreadMags : p \in SeqSet(mag[m].objs)
InDepotMag(p) == \E m \in DepotMags : p \in SeqSet(mag[m].objs)

\* p is on a free list of its zone / lies in the part of its zone that the
\* never-touched cursor has not handed out.
InFreeList(p) ==
    \E z \in DOMAIN zone : \E pg \in DOMAIN zone[z].PageAry : p \in SeqSet(zone[z].PageAry[pg])

InNeverTouched(p) ==
    \E z \in DOMAIN zone :
        /\ zone[z].Magic = ZALLOC_SLAB_MAGIC
        /\ p >= zone[z].BasePtr + zone[z].UUsed * zone[z].ChunkSize
        /\ p < zone[z].BasePtr + zone[z].NMax * zone[z].ChunkSize

\* The block of p is recorded in the bigalloc table.
IsBig(p) ==
    ChainFindIn(bigrec, GetSeq(bigalloc_array, BigBucket(p)), p) # NULL

Usable(p) == UsableSizeOf(Cur, p)

\* The thread's last call has returned, and the caller still holds its result.
Returned(t, ops) ==
    /\ res[t].op \in ops
    /\ res[t].done
    /\ stk[t] = << >>

Holds(t) == LiveRec(Cur, t, res[t].ptr) \subseteq live /\ res[t].ptr # NULL

\* Everything the allocator keeps: zones, magazines, bigalloc table, bigcache,
\* excess counter, mappings and memory contents.
AllocState ==
    << ZoneAry, zone, zone_magazine, depots, mag, thread_mags, bigalloc_array, bigrec,
       bigcache_array, bigcache_size_array, bigcache_index, excess_alloc, maps, mem,
       locks, malloc_panic >>

PowerOfTwo(x) == \E k \in 0..(SizeBits - 1) : x = 2 ^ k

\* The page provider never refuses in this run.
ProviderOK == scn.vm \cap VmFail = {}

(***************************************************************************)
(* Properties                                                              *)
(***************************************************************************)
\* C2: a live pointer obtained from malloc(s) has a usable size of at least s,
\* as the tables stand and as malloc_usable_size() reports it, whatever was
\* done to other pointers since (excess trim, in-place realloc).
C2_UsableAtLeastRequested ==
    /\ \A r \in live : r.op = "malloc" => Usable(r.ptr) >= r.size
    /\ \A t \in DOMAIN res :
           (Returned(t, {"usable_size"}) /\ res[t].old.op = "malloc" /\ res[t].old \in live)
               => res[t].usable >= res[t].old.size

\* C2 witness: a block from malloc is live after another block was shrunk in
\* place by realloc and then trimmed by the excess handler.
C2_Witness ==
    /\ \E r \in live : r.op = "malloc" /\ r.size = 5 * PAGE_SIZE /\ IsBig(r.ptr)
    /\ \E r \in live :
           /\ r.op = "realloc"
           /\ \E b \in DOMAIN bigrec :
                  bigrec[b] = [base |-> r.ptr, active |-> r.size, bytes |-> r.size]
    /\ excess_alloc = 0
    /\ \A t \in DOMAIN stk : stk[t] = << >>

\* C3: malloc(s) for a power of two s <= 2 * PAGE_SIZE returns a pointer that
\* is a multiple of s.
C3_PowerOfTwoAligned ==
    \A r \in live :
        (r.op = "malloc" /\ PowerOfTwo(r.size) /\ r.size <= 2 * PAGE_SIZE)
            => r.ptr % r.size = 0

\* C3 witness: an 8 KiB block from malloc is live.
C3_Witness ==
    \E r \in live : r.op = "malloc" /\ r.size = 2 * PAGE_SIZE /\ ~IsBig(r.ptr)

\* C4: malloc(s) for a positive multiple s of PAGE_SIZE returns a page-aligned
\* pointer, from the slab (s <= 2 pages) and from the big allocator.
C4_PageMultipleAligned ==
    \A r \in live :
        (r.op = "malloc" /\ r.size > 0 /\ r.size % PAGE_SIZE = 0) => r.ptr % PAGE_SIZE = 0

\* C4 witness: page-multiple blocks from the slab and from the big allocator
\* are live together.
C4_Witness ==
    \E r1, r2 \in live :
        /\ r1.op = "malloc" /\ r1.size = PAGE_SIZE /\ ~IsBig(r1.ptr)
        /\ r2.op = "malloc" /\ r2.size = 3 * PAGE_SIZE /\ IsBig(r2.ptr)

\* A step of thread t: it enters, continues or leaves a call.
StepOf(t) == res'[t] # res[t] \/ stk'[t] # stk[t]

ZeroSizeCall(t) ==
    /\ res[t].op \in {"malloc", "realloc"}
    /\ res[t].size = 0
    /\ res[t].old.ptr = NULL

FreeNullCall(t) == res[t].op = "free" /\ res[t].old.ptr = NULL

\* The chunk p is back with the allocator.
GivenBack(p) ==
    \/ InThreadMag(p)
    \/ InDepotMag(p)
    \/ InFreeList(p)
    \/ ZoneOf(p) \notin DOMAIN zone
    \/ zone[ZoneOf(p)].Magic # ZALLOC_SLAB_MAGIC

\* C5: malloc(0) and realloc(NULL, 0) return (unless the page provider refuses)
\* a non-null pointer that differs from every other live pointer and is a
\* chunk of the class of 1-byte requests; free and realloc accept it without
\* a panic, free gives the chunk back; and no step of free(NULL) changes the
\* allocator's state.
C5_ZeroSizeAndNull ==
    /\ [](\A t \in DOMAIN res :
            /\ ZeroSizeCall(t) => ~malloc_panic
            /\ (ZeroSizeCall(t) /\ Returned(t, {"malloc", "realloc"}) /\ ProviderOK)
                   => res[t].ptr # NULL
            /\ (ZeroSizeCall(t) /\ Returned(t, {"malloc", "realloc"}) /\ Holds(t))
                   => /\ \A r \in live : r.id # res[t].id => r.ptr # res[t].ptr
                      /\ Usable(res[t].ptr) = zoneindex(1).bytes
                      /\ zone[ZoneOf(res[t].ptr)].ZoneIndex = zoneindex(1).zi
            /\ (res[t].op \in {"free", "realloc"} /\ res[t].old.ptr # NULL
                    /\ res[t].old.size = 0)
                   => /\ ~malloc_panic
                      /\ Returned(t, {"free"}) => GivenBack(res[t].old.ptr)
                      /\ (Returned(t, {"realloc"}) /\ ProviderOK
                              /\ res[t].size <= SizeMod - PAGE_SIZE) => res[t].ptr # NULL
                      /\ (Returned(t, {"realloc"}) /\ res[t].ptr = NULL)
                             => res[t].old \in live /\ Usable(res[t].old.ptr) = res[t].usable)
    /\ [][\A t \in DOMAIN res :
            (StepOf(t) /\ FreeNullCall(t)') => AllocState' = AllocState]_vars

\* C5 witness: a pointer from malloc(0) was freed, and free(NULL) has returned.
C5_Witness ==
    \E t \in DOMAIN res :
        /\ Returned(t, {"free"})
        /\ FreeNullCall(t)
        /\ bigcache_index = 0
        /\ \E m \in ThreadMags : \E k \in 1..Len(mag[m].objs) :
               Usable(mag[m].objs[k]) = zoneindex(1).bytes

BadAlignment(a) == ~PowerOfTwo(a)

InvalidMemalign(t) ==
    \/ res[t].op = "aligned_alloc" /\ BadAlignment(res[t].align)
    \/ res[t].op = "posix_memalign" /\ (BadAlignment(res[t].align) \/ res[t].align < SizeofPtr)

\* C10: aligned_alloc and posix_memalign with an alignment that is 0 or not a
\* power of two, and posix_memalign with an alignment below sizeof(void *),
\* report EINVAL, give a null pointer, and none of their steps changes the
\* allocator's state.
C10_InvalidAlignment ==
    /\ [](\A t \in DOMAIN res :
            (InvalidMemalign(t) /\ res[t].done)
                => /\ res[t].rc = EINVAL
                   /\ res[t].ptr = NULL
                   /\ res[t].op = "aligned_alloc" => res[t].errno = EINVAL)
    /\ [][\A t \in DOMAIN res :
            (StepOf(t) /\ InvalidMemalign(t)') => AllocState' = AllocState]_vars

\* C10 witness: posix_memalign with the alignment 24 has returned after an
\* earlier call gave the caller a block.
C10_Witness ==
    \E t \in DOMAIN res :
        /\ Returned(t, {"posix_memalign"})
        /\ res[t].align = 24
        /\ res[t].rc = EINVAL
        /\ live # {}

\* The first n bytes of the contents rel, which are relative to a block's start.
ClipRel(rel, n) ==
    { [r EXCEPT !.hi = Min(r.hi, n)] : r \in {x \in rel : x.lo < n} }

ReallocOf(t) == Returned(t, {"realloc"}) /\ res[t].old.ptr # NULL

\* C6: after a successful realloc(p, new) of a live pointer of requested size
\* old, the first min(old, new) bytes of the result are the bytes p held when
\* the call started.
C6_ReallocPreserves ==
    \A t \in DOMAIN res :
        (ReallocOf(t) /\ Holds(t))
            => LET n == Min(res[t].old.size, res[t].size)
               IN  MemRel(mem, res[t].ptr, n) = ClipRel(res[t].snap, n)

\* C7: when realloc(p, size) returns NULL, errno is ENOMEM and p is live as
\* before the call: same contents, same usable size, in no free structure; a
\* slab chunk is still counted as used in its zone and a big block's record is
\* in its hash chain with the base, active and total it had.
C7_FailedReallocKeepsOld ==
    \A t \in DOMAIN res :
        (ReallocOf(t) /\ res[t].ptr = NULL)
            => LET old == res[t].old
                   chain == GetSeq(bigalloc_array, BigBucket(old.ptr))
               IN  /\ res[t].errno = ENOMEM
                   /\ old \in live
                   /\ MemRel(mem, old.ptr, old.size) = res[t].snap
                   /\ Usable(old.ptr) = res[t].usable
                   /\ ~InThreadMag(old.ptr) /\ ~InDepotMag(old.ptr)
                   /\ ~InFreeList(old.ptr) /\ ~InNeverTouched(old.ptr)
                   /\ \A k \in DOMAIN bigcache_array :
                          bigcache_array[k] # NULL => bigrec[bigcache_array[k]].base # old.ptr
                   /\ IF res[t].oldbig = << >>
                      THEN /\ ~IsBig(old.ptr)
                           /\ zone[ZoneOf(old.ptr)].Magic = ZALLOC_SLAB_MAGIC
                      ELSE /\ res[t].oldbig[1] \in SeqSet(chain)
                           /\ bigrec[res[t].oldbig[1]] = res[t].oldbig[2]

\* C7 witness: realloc of a big block failed after it had taken the record out
\* of its chain, and the record is back.
C7_Witness ==
    \E t \in DOMAIN res :
        /\ ReallocOf(t)
        /\ res[t].ptr = NULL
        /\ res[t].oldbig # << >>
        /\ res[t].size > res[t].usable
        /\ res[t].size <= SizeMod - PAGE_SIZE

\* The call of thread t is one whose result must be zero-filled.
ZeroFillCall(t) ==
    \/ res[t].op = "calloc"
    \/ /\ "ZERO" \in g_malloc_flags
       /\ res[t].op \in {"malloc", "aligned_alloc", "posix_memalign"}

\* The size a request was rounded to: the chunk size, or the active bytes of
\* a big block.
RoundedSize(p) ==
    LET big == ChainFindIn(bigrec, GetSeq(bigalloc_array, BigBucket(p)), p)
    IN  IF big # NULL THEN bigrec[big].active ELSE zone[ZoneOf(p)].ChunkSize

\* C8: a block returned by calloc, or by any allocation function when the Z
\* option is on, holds only zero bytes over its rounded size when the caller
\* receives it.
C8_ZeroFilled ==
    \A t \in DOMAIN res :
        (ZeroFillCall(t) /\ res[t].done /\ stk[t] = << >> /\ Holds(t) /\ ~res[t].touched)
            => IsZero(mem, res[t].ptr, res[t].ptr + RoundedSize(res[t].ptr))

AlignedCall(t) ==
    /\ Returned(t, {"aligned_alloc", "posix_memalign"})
    /\ res[t].rc = 0
    /\ PowerOfTwo(res[t].align)

\* C9: a successful aligned_alloc(a, size) or posix_memalign(&p, a, size) with
\* a power-of-two a gives a pointer p with p mod a = 0 whose usable size is at
\* least size.
C9_AlignedAndLargeEnough ==
    \A t \in DOMAIN res :
        (AlignedCall(t) /\ Holds(t))
            => /\ res[t].ptr % res[t].align = 0
               /\ Usable(res[t].ptr) >= res[t].size

LiveRange(r) == [lo |-> r.ptr, hi |-> r.ptr + Usable(r.ptr)]

\* C1: at every point of every interleaving, two distinct live pointers are
\* different addresses whose usable ranges do not overlap, and no live chunk
\* is in a thread magazine, a depot magazine, a zone free list or the
\* never-touched area of its zone.
C1_NoDoubleOwner ==
    /\ \A r1, r2 \in live :
           r1 # r2 => /\ r1.ptr # r2.ptr
                      /\ ~Overlaps(LiveRange(r1).lo, LiveRange(r1).hi,
                                   LiveRange(r2).lo, LiveRange(r2).hi)
    /\ \A r \in live :
           /\ ~InThreadMag(r.ptr)
           /\ ~InDepotMag(r.ptr)
           /\ ~InFreeList(r.ptr)
           /\ ~InNeverTouched(r.ptr)

\* C1 witness: a chunk freed by one thread travelled through a magazine, and
\* two threads now hold chunks of the same zone while a call is in progress.
C1_Witness ==
    \E r1, r2 \in live :
        /\ r1.id[1] # r2.id[1]
        /\ ZoneOf(r1.ptr) = ZoneOf(r2.ptr)
        /\ ~IsBig(r1.ptr)
        /\ \E m \in ThreadMags : mag[m].objs # << >>
        /\ \E t \in DOMAIN stk : stk[t] # << >>

\* n * s in the integers, cut off at SizeMod: doubling and adding.
RECURSIVE Product(_, _)
Product(n, s) ==
    IF n = 0 THEN 0
    ELSE Min(SizeMod, 2 * Product(n \div 2, s) + (n % 2) * s)

\* The thread's step is the start of a calloc() call.
CallocStarts(t) == nops'[t] = nops[t] + 1 /\ res'[t].op = "calloc"

\* C11: calloc(n, size) whose product does not fit in size_t returns NULL with
\* ENOMEM and touches nothing; calloc(n, size) whose product fits passes the
\* overflow test and asks _slaballoc for n * size zeroed bytes.
C11_CallocOverflow ==
    /\ [](\A t \in DOMAIN res :
            (res[t].op = "calloc" /\ Product(res[t].align, res[t].elem) >= SizeMod)
                => /\ res[t].done
                   /\ res[t].ptr = NULL
                   /\ res[t].errno = ENOMEM
                   /\ \A r \in live : r.id # res[t].id)
    /\ [][\A t \in DOMAIN res :
            CallocStarts(t)
                => LET n == res'[t].align
                       sz == res'[t].elem
                   IN  IF Product(n, sz) >= SizeMod
                       THEN AllocState' = AllocState /\ stk'[t] = << >> /\ live' = live
                       ELSE /\ stk'[t] # << >>
                            /\ stk'[t][1].pc = "sa_entry"
                            /\ stk'[t][1].size = Product(n, sz)
                            /\ "ZERO" \in stk'[t][1].flags]_vars

\* C11 witness: calloc(3, SIZE_MAX / 3 + 1) was refused, the smallest product
\* of 3 that does not fit.
C11_Witness ==
    \E t \in DOMAIN res :
        /\ Returned(t, {"calloc"})
        /\ res[t].align = 3
        /\ res[t].elem = (SizeMod - 1) \div 3 + 1
        /\ res[t].errno = ENOMEM

\* Thread t is at a lock that is held, and by whom.
Waiting(t) ==
    /\ stk[t] # << >>
    /\ isthreaded
    /\ WantLock(Top(Cur, t)) \in DOMAIN locks

Holder(t) == locks[WantLock(Top(Cur, t))]

\* A set of threads each of which waits for a lock held inside the set, or a
\* thread that waits for a lock whose holder is in no call.
Deadlocked ==
    \/ \E D \in (SUBSET DOMAIN stk) \ {{}} : \A t \in D : Waiting(t) /\ Holder(t) \in D
    \/ \E t \in DOMAIN stk : Waiting(t) /\ stk[Holder(t)] = << >>

\* C12: threads that run malloc and free on small objects concurrently reach
\* no deadlock (nobody waits for the slab, depot, zone-magazine or a stripe
\* lock that can never be released) and no panic.
C12_NoDeadlockNoPanic ==
    /\ ~malloc_panic
    /\ ~Deadlocked
    /\ \A l \in DOMAIN locks : stk[locks[l]] # << >>

\* C12 witness: one thread waits for the slab lock while another holds it,
\* and a third thread is inside a call too.
C12_Witness ==
    \E t, u, v \in DOMAIN stk :
        /\ t # u /\ u # v /\ t # v
        /\ Waiting(t)
        /\ WantLock(Top(Cur, t)) = SlgdLock
        /\ Holder(t) = u
        /\ stk[v] # << >>

\* The process is the child of a fork, and the thread that forked is back
\* from fork().
InChild(t) ==
    /\ \E u \in DOMAIN res : res[u].op = "gone"
    /\ res[t].op # "gone"
    /\ ~(res[t].op = "fork" /\ ~res[t].done)

\* C13: in the child, once the child hook has run, every allocator lock that
\* is held is held by the one thread the child has, so that its malloc and
\* free calls wait for no lock forever.
C13_ChildHoldsNoStaleLock ==
    \A t \in DOMAIN res :
        InChild(t) => /\ \A l \in DOMAIN locks : locks[l] = t
                      /\ ~Deadlocked

\* Thread t is inside a worker of the allocator that a public entry called.
InWorker(t) == Len(stk[t]) >= 2 /\ res[t].op \notin {"", "fork", "gone"}

\* C14: whoever holds an allocator lock or is inside a worker function that a
\* public entry called has its signal-block count above the value at entry
\* (0), and a thread that is in no call has it back at that value.
C14_SigblockBracket ==
    /\ \A l \in DOMAIN locks : sigblock[locks[l]] > 0
    /\ \A t \in DOMAIN stk :
           /\ InWorker(t) => sigblock[t] > 0
           /\ stk[t] = << >> => sigblock[t] = 0

\* A burst of k magazines' worth of objects of the last size class.
Burst(k) ==
    [Scn0 EXCEPT !.init = <<1>>, !.threaded = TRUE, !.ops = {"malloc", "free", "exit"},
                 !.sizes = {ZoneLimit - 1}, !.burst = k * zonecapacity(NZONES - 1),
                 !.calls = <<2 * k * zonecapacity(NZONES - 1) + 1>>]

\* The same burst twice: the second round of malloc empties the magazines
\* that the first round of free filled.
Refill(k) ==
    [Burst(k) EXCEPT !.bursts = 2, !.calls = <<4 * k * zonecapacity(NZONES - 1) + 1>>]

\* A thread without magazines allocates the chunks of one zone more than the
\* zone magazine takes (three chunks of the last class to a zone) and frees
\* them all.
ZoneFill ==
    [Scn0 EXCEPT !.init = <<-1>>, !.threaded = TRUE, !.ops = {"malloc", "free"},
                 !.sizes = {ZoneLimit - 1}, !.burst = 3 * (M_ZONE_INIT_ROUNDS + 1),
                 !.calls = <<6 * (M_ZONE_INIT_ROUNDS + 1)>>]

\* A thread with magazines exits, and its destructor may run again after
\* further calls; a thread exits while the process is exiting; the thread of
\* a process without the thread library (tp->init stays 0); a thread
\* allocates two resp. five magazines' worth of objects, frees them and exits,
\* or does so twice before it exits; a thread fills the zone magazine; a
\* thread frees a block of the class of the magazine objects that another
\* thread allocated.
ScenariosExit ==
    { [Scn0 EXCEPT !.init = <<1>>, !.threaded = TRUE, !.ops = {"malloc", "free", "exit"},
                   !.sizes = {24}, !.calls = <<MaxOps + 3>>],
      [Scn0 EXCEPT !.init = <<1>>, !.threaded = TRUE, !.ops = {"malloc", "exit"},
                   !.sizes = {24, 200}, !.calls = <<MaxOps>>],
      [Scn0 EXCEPT !.init = <<1>>, !.threaded = TRUE, !.ops = {"malloc", "free", "exit"},
                   !.sizes = {24}, !.calls = <<MaxOps>>, !.exiting = TRUE],
      [Scn0 EXCEPT !.ops = {"malloc", "free"}, !.sizes = {24}],
      [Scn0 EXCEPT !.init = <<1, 1>>, !.threaded = TRUE, !.ops = {"malloc", "free"},
                   !.sizes = {SizeofMagazine}, !.setup = 1, !.calls = <<1, MaxOps>>],
      Burst(2), Burst(5), Refill(5), ZoneFill }

InitExit == \E sc \in ScenariosExit : InitOf(sc)

NextExit ==
    \/ Malloc
    \/ Free
    \/ Touch
    \/ SlabAlloc
    \/ ZoneAlloc
    \/ MtMagazineAlloc
    \/ SlabFree
    \/ ZoneFree
    \/ MtMagazineFree
    \/ ThreadExit
    \/ MtMagazineDestructor
    \/ MtMagazineDrain

SpecExit == InitExit /\ [][NextExit]_vars

\* The destructor of thread t runs or has run, in a process that is not exiting.
ExitRun(t) == res[t].op = "exit" /\ ~scn.exiting

\* What thread t still caches: its magazines, the magazine its destructor is
\* draining, and the objects in them.
HeldBy(S, t) ==
    LET inflight == {S.stk[t][k].big : k \in {j \in DOMAIN S.stk[t] :
                        S.stk[t][j].pc \in {"md_drained"} \cup MtMagazineDrainPcs}}
    IN  CachedBy(S, t).objs \cup CachedBy(S, t).mags \cup inflight
        \cup UNION {SeqSet(S.mag[mp].objs) : mp \in inflight \cap DOMAIN S.mag}

\* The chunk p went through the slab path of _slabfree: it is on a free list,
\* or its zone became free and was parked or unmapped.
SlabFreed(p) ==
    \/ InFreeList(p)
    \/ ZoneOf(p) \notin DOMAIN zone
    \/ zone[ZoneOf(p)].Magic # ZALLOC_SLAB_MAGIC

\* C15: after the thread-exit destructor has run, the thread's init is -1, its
\* loaded and prev slots and newmag are null, and every object and magazine it
\* cached left the cache by a call of _slabfree and is back in the slab; a
\* destructor run that starts with init = -1 (a second pass, also after
\* further malloc/free calls) calls _slabfree for nothing and changes no
\* allocator state.
C15_DestructorDrains ==
    /\ [](\A t \in DOMAIN res :
            (ExitRun(t) /\ res[t].done) =>
                /\ thread_mags[t] = [mags |-> EmptyMap, newmag |-> NULL, init |-> -1]
                /\ \A p \in res[t].snap : SlabFreed(p) /\ ~InThreadMag(p) /\ ~InDepotMag(p))
    /\ [][\A t \in DOMAIN res :
            (ExitRun(t) /\ stk[t] # << >>) =>
                /\ \A p \in HeldBy(Cur, t) \ HeldBy(Cur', t) :
                       stk'[t] # << >> /\ stk'[t][1] = slabfree_frame(p)
                /\ res[t].rc = -1 =>
                       /\ AllocState' = AllocState
                       /\ stk'[t] # << >> => stk'[t][1].pc \notin SlabFreePcs]_vars

\* The chunks on the free lists of the zones.
FreeChunks ==
    UNION {UNION {SeqSet(zone[z].PageAry[pg]) : pg \in DOMAIN zone[z].PageAry} :
           z \in DOMAIN zone}

\* The destructor ran again after the thread, its magazines torn down by the
\* first run (more chunks are on the free lists than the thread made calls),
\* allocated a block that it still holds.
C15_Witness ==
    \E t \in DOMAIN res :
        /\ ExitRun(t) /\ res[t].done /\ res[t].rc = -1 /\ stk[t] = << >>
        /\ \E r \in live : r.id = <<t, nops[t] - 1>> /\ r.op = "malloc"
        /\ Cardinality(FreeChunks) > nops[t]

\* Thread t is in a call of the allocator that is not a step of the
\* destructor itself (which empties the slots), or in no call.
OutsideTeardown(t) ==
    stk[t] = << >> \/ stk[t][1].pc \notin MtMagazineDestructorPcs \cup MtMagazineDrainPcs

\* This step leaves the magazine layer of thread t alone: its slots, its
\* newmag and the contents of its magazines.
MagsUntouched(t) ==
    /\ thread_mags'[t] = thread_mags[t]
    /\ \A mp \in CachedBy(Cur, t).mags \cap DOMAIN mag : mp \in DOMAIN mag' /\ mag'[mp] = mag[mp]

\* C16 as stated: while a thread's init is below 1 (0 before _nmalloc_thr_init
\* ran, -1 during initialization and teardown) no step of allocate or free
\* pops from, pushes to, installs or fills a magazine of the thread.
C16_BypassBelowOne ==
    [][\A t \in DOMAIN thread_mags :
          (thread_mags[t].init < 1 /\ OutsideTeardown(t)) => MagsUntouched(t)]_vars

\* C16: while a thread's init is below 0 (-1 during initialization and
\* teardown) no step of allocate or free pops from, pushes to, installs or
\* fills a magazine of the thread.
C16_BypassBelowZero ==
    [][\A t \in DOMAIN thread_mags :
          (thread_mags[t].init < 0 /\ OutsideTeardown(t)) => MagsUntouched(t)]_vars

\* During the teardown of a thread that still has a magazine in a slot, an
\* object drained from another magazine is in _slabfree past the magazine layer.
C16_Witness ==
    \E t \in DOMAIN thread_mags :
        /\ thread_mags[t].init = -1
        /\ thread_mags[t].mags # EmptyMap
        /\ stk[t] # << >> /\ stk[t][1].pc = "sf_slabbody"

\* zoneindex() on every byte count up to the zone limit, the limit included.
ScenariosZoneindex ==
    { [Scn0 EXCEPT !.ops = {"zoneindex"}, !.sizes = 0..ZoneLimit, !.calls = <<1>>] }

InitZoneindex == \E sc \in ScenariosZoneindex : InitOf(sc)

NextZoneindex == Zoneindex

SpecZoneindex == InitZoneindex /\ [][NextZoneindex]_vars

\* zoneindex() returned to thread t, for a byte count below the zone limit
\* that the callers can pass (they turn 0 into 1 before).
Classified(t) ==
    /\ res[t].op = "zoneindex"
    /\ res[t].done
    /\ res[t].size \in 1..(ZoneLimit - 1)

\* A row <<first size, last size, granularity, first index, last index>> of
\* the table holds the classification of size n.
InTable(tab, n, zi, c) ==
    \E k \in DOMAIN tab :
        /\ tab[k][1] <= n /\ n <= tab[k][2]
        /\ c = tab[k][3]
        /\ tab[k][4] <= zi /\ zi <= tab[k][5]

\* The size class table as the claim lists it, and as the index ranges are.
ListedTable ==
    << <<0, 15, 8, 0, 1>>, <<16, 127, 16, 3, 10>>, <<128, 255, 16, 11, 15>>,
       <<256, 511, 32, 23, 30>>, <<512, 1023, 64, 31, 38>>, <<1024, 2047, 128, 39, 46>>,
       <<2048, 4095, 256, 47, 54>>, <<4096, 8191, 512, 55, 62>>,
       <<8192, 16383, 1024, 63, 71>> >>

ActualTable ==
    << <<0, 15, 8, 0, 1>>, <<16, 127, 16, 3, 10>>, <<128, 255, 16, 15, 23>>,
       <<256, 511, 32, 23, 31>>, <<512, 1023, 64, 31, 39>>, <<1024, 2047, 128, 39, 47>>,
       <<2048, 4095, 256, 47, 55>>, <<4096, 8191, 512, 55, 63>>,
       <<8192, 16383, 1024, 63, 71>> >>

C18_TotalAndRoundedUp ==
    \A t \in DOMAIN res :
        (res[t].op = "zoneindex" /\ res[t].size \in 1..(ZoneLimit - 1)) =>
            /\ ~malloc_panic
            /\ res[t].done =>
                  /\ res[t].rc \in 0..(NZONES - 1)
                  /\ res[t].usable % res[t].align = 0
                  /\ res[t].usable >= res[t].size
                  /\ res[t].usable - res[t].size < res[t].align

\* zoneindex(8193): the last class, 9216 bytes.
C18_Witness ==
    \E t \in DOMAIN res :
        /\ Classified(t) /\ res[t].size = 2 * PAGE_SIZE + 1
        /\ res[t].rc = 64 /\ res[t].usable = 9 * 1024

\* malloc_usable_size(p) returned to thread t, for a block p that malloc(size)
\* returned and that is still live.
UsableSizeOfMalloc(t, size) ==
    /\ Returned(t, {"usable_size"})
    /\ res[t].old.op = "malloc"
    /\ res[t].old.size = size
    /\ res[t].old \in live

BurstDone(t) ==
    /\ scn.burst > 0
    /\ res[t].op = "exit"
    /\ res[t].done
    /\ nops[t] = 2 * scn.burst + 1

\* The magazines that the frees of n objects in magazines of k rounds send to
\* the depot: all but the two the thread keeps, counting the chunks that the
\* slab core had cached into the loaded magazine.
Overflowed(n, k) == Max(0, (n + CACHE_CHUNKS + k - 1) \div k - 2)

\* C20 as stated: after the thread allocated N objects of one class, freed
\* them and exited, the full and the empty list of the class's depot are at
\* most 2 longer than before the thread started (when they were empty).
C20_DepotGrowthAtMostTwo ==
    \A t \in DOMAIN res :
        BurstDone(t) => \A zi \in DOMAIN depots : /\ Len(depots[zi].full) <= 2
                                                  /\ Len(depots[zi].empty) <= 2

\* C20: no step of the destructor changes a depot (the thread's magazines and
\* their objects go back to the slab), and after the thread allocated N
\* objects of one class, freed them and exited, the class's empty list is as
\* before (empty) and its full list holds the magazines that the frees filled
\* beyond the two of the thread: at most ceil((N + CACHE_CHUNKS) / capacity) - 2.
C20_DepotGrowth ==
    /\ [](\A t \in DOMAIN res :
            BurstDone(t) =>
                \A zi \in DOMAIN depots :
                    /\ depots[zi].empty = << >>
                    /\ Len(depots[zi].full) <=
                           Overflowed(scn.burst,
                                      ((NZONES - zi) * (M_MAX_ROUNDS - M_MIN_ROUNDS)) \div NZONES
                                      + M_MIN_ROUNDS))
    /\ [][\A t \in DOMAIN res :
            (res[t].op = "exit" /\ stk[t] # << >>) => depots' = depots]_vars

\* The thread that allocated and freed five magazines' worth of objects has
\* exited and left four full magazines in the depot.
C20_Witness ==
    \E t \in DOMAIN res :
        /\ BurstDone(t)
        /\ \E zi \in DOMAIN depots : Len(depots[zi].full) = 4
        /\ thread_mags[t] = [mags |-> EmptyMap, newmag |-> NULL, init |-> -1]

\* The scenario repeats malloc(s); free(p) for one big size s.
Recycling == scn.loop /\ scn.count /\ scn.ops = {"malloc", "free"}

\* A block is parked in the bigcache.
Parked == \E i \in DOMAIN bigcache_array : bigcache_array[i] # NULL

\* C21: in a sequence that repeats malloc(s); free(p) for one big size up to
\* BIGCACHE_LIMIT, the page provider is asked for the data of a big block at
\* most 16 times however long the sequence is: a free parks the block in the
\* bigcache, and the provider is not asked while a block is parked.
C21_RecycleBoundsMappings ==
    /\ [](Recycling => vmem_calls <= BIGCACHE)
    /\ [](\A t \in DOMAIN res :
            (Recycling /\ Returned(t, {"free"})) => Parked)
    /\ [][(Recycling /\ vmem_calls' # vmem_calls) => ~Parked]_vars

\* The block was allocated and freed more often than the bigcache has slots.
C21_Witness ==
    \E t \in DOMAIN res :
        /\ Recycling /\ Returned(t, {"free"})
        /\ nops[t] = 2 * (BIGCACHE + MaxOps)
        /\ vmem_calls = 1

\* The scenario grows one block by realloc, a page at a time; thread t has
\* made n realloc calls and the last one returned.
Grown(t, n) ==
    /\ scn.loop /\ scn.step > 0
    /\ Returned(t, {"realloc"})
    /\ nops[t] = n + 1

\* C22: of the calls p = realloc(p, 100 KiB + i * 4 KiB), i = 1..100, that follow
\* p = malloc(100 KiB), at least half return the pointer they were given,
\* whichever adjacent mappings succeed; and so of the first n calls, for every
\* even n.
C22_HalfInPlace ==
    \A t \in DOMAIN res :
        \A n \in 1..Grows :
            Grown(t, n) => /\ 2 * res[t].kept + 1 >= n
                           /\ res[t].ptr # NULL

\* All 100 calls returned and every adjacent mapping failed: 50 of them moved
\* the block.
C22_Witness ==
    \E t \in DOMAIN res :
        Grown(t, Grows) /\ scn.fixed = {"fail"} /\ res[t].kept = Grows \div 2

\* The zones whose header carries the sentinel magic.
LiveZones == {z \in DOMAIN zone : zone[z].Magic = ZALLOC_SLAB_MAGIC}

SlabLockFree == SlgdLock \notin DOMAIN locks

\* The chunks on the per-page free lists of zone z.
FreeListed(z) == UNION {SeqSet(zone[z].PageAry[pg]) : pg \in DOMAIN zone[z].PageAry}

FreeListLen(z) ==
    LET pgs == DOMAIN zone[z].PageAry
        RECURSIVE Sum(_)
        Sum(P) == IF P = {} THEN 0
                  ELSE LET pg == SetMin(P) IN Len(zone[z].PageAry[pg]) + Sum(P \ {pg})
    IN  Sum(pgs)

\* C23: whenever the slab lock is free, z_NFree of every live zone is the
\* number of chunks on its per-page free lists plus the number of chunks the
\* never-touched cursor has not handed out; no free-list entry is the zone
\* header, and no call panics.
C23_FreeCount ==
    /\ ~malloc_panic
    /\ SlabLockFree =>
          \A z \in LiveZones :
              /\ zone[z].NFree = FreeListLen(z) + (zone[z].NMax - zone[z].UUsed)
              /\ zone[z].UUsed \in 0..zone[z].NMax
              /\ Cardinality(FreeListed(z)) = FreeListLen(z)
              /\ \A c \in FreeListed(z) : c % ZoneSize # 0

\* A zone whose cursor has handed out every chunk and whose free lists hold
\* some of them again, next to a zone that is exhausted.
C23_Witness ==
    /\ SlabLockFree /\ isthreaded
    /\ \E z \in LiveZones : /\ zone[z].UUsed = zone[z].NMax
                            /\ FreeListLen(z) > 0
                            /\ zone[z].NFree = FreeListLen(z)

\* The zones reached from ZoneAry[zi] along z_Next, in order (a walk no longer
\* than the number of zones).
ZoneList(zi) ==
    LET RECURSIVE Walk(_, _)
        Walk(z, n) == IF z = NULL \/ n = 0 THEN << >>
                      ELSE <<z>> \o Walk(IF z \in DOMAIN zone THEN zone[z].Next ELSE NULL, n - 1)
    IN  Walk(Get(ZoneAry, zi), Cardinality(DOMAIN zone) + 1)

Occurrences(seq, z) == Cardinality({i \in DOMAIN seq : seq[i] = z})

\* The zones a thread has set up (1243-1250) and not yet linked (1261-1263):
\* no other thread can reach them.
BeingCreated ==
    {Head(stk[t]).z : t \in {u \in DOMAIN stk : stk[u] # << >> /\ Head(stk[u]).pc = "sa_newlock"}}

ChunksOut ==
    {r.ptr : r \in {q \in live : \A b \in DOMAIN bigrec : bigrec[b].base # q.ptr}}
    \cup UNION {SeqSet(mag[m].objs) : m \in DOMAIN mag}
    \cup DOMAIN mag \cup DOMAIN bigrec

\* The zones that _slabfree has passed to zone_free and zone_free has not yet
\* cleared (2045).
HandedToZoneFree ==
    {Head(stk[t]).z : t \in {u \in DOMAIN stk : stk[u] # << >>
                                               /\ Head(stk[u]).pc \in {"zf_lock", "zf_body"}}}

\* C25: a zone handed to zone_free has all its z_NMax chunks free in the slab
\* core, none of them with a caller or in a magazine, is on no class list and
\* no longer carries the sentinel magic; every zone with a chunk that is out
\* carries the sentinel magic.
C25_ZoneFreeTotallyFree ==
    /\ \A z \in HandedToZoneFree :
           /\ zone[z].NFree = zone[z].NMax
           /\ FreeListLen(z) + (zone[z].NMax - zone[z].UUsed) = zone[z].NMax
           /\ \A p \in ChunksOut : ZoneOf(p) # z
           /\ \A zi \in DOMAIN ZoneAry : Occurrences(ZoneList(zi), z) = 0
           /\ zone[z].Magic # ZALLOC_SLAB_MAGIC
    /\ \A p \in ChunksOut :
           /\ ZoneOf(p) \in DOMAIN zone
           /\ zone[ZoneOf(p)].Magic = ZALLOC_SLAB_MAGIC

\* A zone on its way to zone_free while another thread holds a chunk of
\* another zone of the same class.
C25_Witness ==
    \E z \in HandedToZoneFree :
        \E r \in live :
            /\ ZoneOf(r.ptr) \in LiveZones \ {z}
            /\ zone[ZoneOf(r.ptr)].ChunkSize = zone[z].ChunkSize

\* The pages of zone z with a chunk on their free list.
FreePages(z) == {pg \in DOMAIN zone[z].PageAry : zone[z].PageAry[pg] # << >>}

\* One step took chunks off the free list of page pg of zone z.
TookFromPage(z, pg) ==
    /\ pg \in FreePages(z)
    /\ pg \in DOMAIN zone'[z].PageAry
    /\ Len(zone'[z].PageAry[pg]) < Len(zone[z].PageAry[pg])

\* C26: a step of the slab core that advances the never-touched cursor of a
\* zone leaves every per-page free list of the zone empty, and a step that
\* takes a chunk from the free list of a page leaves the lists of all lower
\* pages empty; z_FirstFreePg is never above a page with a free chunk.
C26_FreeListsFirst ==
    /\ [](SlabLockFree =>
            \A z \in LiveZones : \A pg \in FreePages(z) : zone[z].FirstFreePg <= pg)
    /\ [][\A z \in LiveZones \cap DOMAIN zone' :
            /\ zone'[z].UUsed > zone[z].UUsed => FreePages(z)' = {}
            /\ \A pg \in FreePages(z) :
                   TookFromPage(z, pg) =>
                       /\ \A lo \in FreePages(z)' : lo >= pg
                       /\ \A lo \in FreePages(z) : lo < pg => TookFromPage(z, lo)]_vars

\* malloc returned a chunk that had been freed, from the lowest page with a
\* free chunk: a higher page still has one and the cursor has chunks left.
C26_Witness ==
    \E t \in DOMAIN res :
        /\ Returned(t, {"malloc"}) /\ Holds(t)
        /\ LET z == ZoneOf(res[t].ptr)
           IN  /\ z \in LiveZones
               /\ zone[z].UUsed < zone[z].NMax
               /\ FreePages(z) # {}
               /\ \A pg \in FreePages(z) : pg > (res[t].ptr - z) \div PAGE_SIZE

\* Thread t is inside mtmagazine_alloc or mtmagazine_free (or in a call made
\* from there).
InMagazineLayer(t) ==
    \E k \in DOMAIN stk[t] : stk[t][k].pc \in MtMagazineAllocPcs \cup MtMagazineFreePcs

Rounds(m) == Len(mag[m].objs)

\* C27: outside mtmagazine_alloc and mtmagazine_free, the prev magazine of
\* every thread and size class is null, has no rounds, or has as many rounds
\* as its capacity.
C27_PrevEmptyOrFull ==
    \A t \in DOMAIN thread_mags :
        ~InMagazineLayer(t) =>
            \A zi \in DOMAIN thread_mags[t].mags :
                LET mp == thread_mags[t].mags[zi].prev
                IN  \/ mp = NULL
                    \/ Rounds(mp) = 0
                    \/ Rounds(mp) = mag[mp].capacity

\* After frees that sent full magazines to the depot, allocations have brought
\* one back: prev is an empty magazine, loaded a partly used one, and the
\* depot holds full magazines and an empty one.
C27_Witness ==
    \E t \in DOMAIN thread_mags :
        /\ ~InMagazineLayer(t) /\ stk[t] = << >>
        /\ \E zi \in DOMAIN thread_mags[t].mags :
               LET pair == thread_mags[t].mags[zi]
               IN  /\ pair.prev # NULL /\ pair.loaded # NULL
                   /\ Rounds(pair.prev) = 0
                   /\ Rounds(pair.loaded) \in 1..(mag[pair.loaded].capacity - 1)
                   /\ zi \in DOMAIN depots
                   /\ depots[zi].empty # << >>
                   /\ depots[zi].full # << >>

\* The places that refer to a magazine, each with the magazine it refers
\* to: the loaded, prev and newmag slots of the threads and the positions of
\* the depot lists.
MagazineRefs ==
    LET T == DOMAIN thread_mags
        slots == UNION {{<<t, zi, "loaded", MagPair(thread_mags[t], zi).loaded>>,
                         <<t, zi, "prev", MagPair(thread_mags[t], zi).prev>>} :
                        t \in T, zi \in 0..(NZONES - 1)}
        news == {<<t, 0, "newmag", thread_mags[t].newmag>> : t \in T}
        lists == UNION {{<<i, zi, "full", depots[zi].full[i]>> : i \in DOMAIN depots[zi].full}
                        \cup {<<i, zi, "empty", depots[zi].empty[i]>> :
                              i \in DOMAIN depots[zi].empty} : zi \in DOMAIN depots}
    IN  {h \in slots \cup news \cup lists : h[4] # NULL}

\* C28: however the threads interleave, the magazines on a depot's full list
\* have as many rounds as their capacity and those on its empty list have
\* none, no magazine has two holders, every magazine has between 0 and
\* capacity rounds and a capacity of 509 at most, and no assertion fails.
C28_DepotMagazines ==
    /\ ~malloc_panic
    /\ \A zi \in DOMAIN depots :
           /\ \A i \in DOMAIN depots[zi].full :
                  LET m == depots[zi].full[i] IN Len(mag[m].objs) = mag[m].capacity
           /\ \A i \in DOMAIN depots[zi].empty :
                  LET m == depots[zi].empty[i] IN Len(mag[m].objs) = 0
    /\ \A m \in DOMAIN mag :
           /\ \A g, h \in MagazineRefs : (g[4] = m /\ h[4] = m) => g = h
           /\ Len(mag[m].objs) <= mag[m].capacity
           /\ mag[m].capacity <= 509

\* Two threads went to the depot for its last full magazine: one of them has
\* it loaded, the other one got its block from the slab core, and both calls
\* returned.
C28_Witness ==
    \E t, u \in DOMAIN thread_mags :
        /\ t # u /\ t # 1 /\ u # 1
        /\ Returned(t, {"malloc"}) /\ Returned(u, {"malloc"})
        /\ res[t].ptr # NULL /\ res[u].ptr # NULL
        /\ \E zi \in DOMAIN thread_mags[t].mags \cap DOMAIN thread_mags[u].mags :
               LET mt == thread_mags[t].mags[zi].loaded
                   mu == thread_mags[u].mags[zi].loaded
               IN  /\ mt # NULL /\ mu # NULL
                   /\ Len(mag[mt].objs) = mag[mt].capacity - 1
                   /\ Len(mag[mu].objs) < mag[mu].capacity - 1
                   /\ Depot(Cur, zi).full = << >>

\* Thread t takes the step of zone_free under the zone magazine lock
\* (2045-2063, 2069) resp. the step that unmaps (2065-2067).
ZfBody(t) == stk[t] # << >> /\ Head(stk[t]).pc = "zf_body" /\ stk'[t] # stk[t]
ZfUnmap(t) == stk[t] # << >> /\ Head(stk[t]).pc = "zf_unmap" /\ stk'[t] # stk[t]

ZoneMagFull == Len(zone_magazine.objs) = zone_magazine.capacity

\* The zones of sequence zs and zone z go back to the page provider.
Released(zs, z) ==
    /\ DOMAIN zone' = DOMAIN zone \ (SeqSet(zs) \cup {z})
    /\ \A x \in SeqSet(zs) \cup {z} : MapFree(maps', x, x + ZoneSize)
                                       /\ ~MapFree(maps, x, x + ZoneSize)

\* A call of zone_free that finds room pushes the zone and releases nothing.
ZoneFreePushes ==
    \A t \in DOMAIN stk :
        (ZfBody(t) /\ ~ZoneMagFull) =>
            /\ zone_magazine'.objs = Append(zone_magazine.objs, Head(stk[t]).z)
            /\ DOMAIN zone' = DOMAIN zone
            /\ maps' = maps
            /\ Len(stk'[t]) < Len(stk[t])

\* A call of zone_free that finds the zone magazine full takes 32 zones out
\* of it and releases them and the zone being freed.
ZoneFreeReleases ==
    \A t \in DOMAIN stk :
        /\ (ZfBody(t) /\ ZoneMagFull) =>
               /\ Head(stk'[t]).pc = "zf_unmap"
               /\ Len(Head(stk'[t]).xs) = 32
               /\ SeqSet(Head(stk'[t]).xs) \cup SeqSet(zone_magazine'.objs)
                      = SeqSet(zone_magazine.objs)
               /\ SeqSet(Head(stk'[t]).xs) \cap SeqSet(zone_magazine'.objs) = {}
               /\ maps' = maps
        /\ ZfUnmap(t) =>
               /\ Cardinality(SeqSet(Head(stk[t]).xs) \cup {Head(stk[t]).z}) = 33
               /\ Released(Head(stk[t]).xs, Head(stk[t]).z)
               /\ zone_magazine' = zone_magazine
               /\ Len(stk'[t]) < Len(stk[t])

\* C29 as stated: a call of zone_free that finds the zone magazine full
\* releases 32 cached zones and the zone being freed and leaves the zone
\* magazine empty; every other call pushes the zone and releases nothing.
C29_OverflowEmpties ==
    [][/\ ZoneFreePushes
       /\ ZoneFreeReleases
       /\ \A t \in DOMAIN stk : (ZfBody(t) /\ ZoneMagFull) => zone_magazine'.objs = << >>]_vars

\* C29, amended: a call of zone_free that finds the zone magazine full
\* releases 32 cached zones and the zone being freed and leaves the other 32
\* zones in the zone magazine; every other call pushes the zone and releases
\* nothing.
C29_OverflowKeepsHalf ==
    [][/\ ZoneFreePushes
       /\ ZoneFreeReleases
       /\ \A t \in DOMAIN stk :
              (ZfBody(t) /\ ZoneMagFull) =>
                  /\ Len(zone_magazine'.objs) = 32
                  /\ zone_magazine'.objs = SubSeq(zone_magazine.objs, 1, 32)]_vars

\* The 65th zone was freed with 64 zones in the zone magazine: 33 zones are
\* gone and 32 are left, all of them in the zone magazine.
C29_Witness ==
    \E t \in DOMAIN res :
        /\ Returned(t, {"free"})
        /\ scn.init = <<-1>> /\ nops[t] = 2 * scn.burst
        /\ Len(zone_magazine.objs) = 32
        /\ DOMAIN zone = SeqSet(zone_magazine.objs)

\* The records on the chains of the bigalloc hash table.
BigInTable == UNION {SeqSet(bigalloc_array[k]) : k \in DOMAIN bigalloc_array}

\* The records parked in the bigcache.
BigParked == {bigcache_array[i] : i \in DOMAIN bigcache_array} \ {NULL}

\* The sum of total - active over a set of records.
RECURSIVE ExcessOf(_)
ExcessOf(B) ==
    IF B = {} THEN 0
    ELSE LET b == SetMin(B)
         IN  (bigrec[b].bytes - bigrec[b].active) + ExcessOf(B \ {b})

AllIdle == \A t \in DOMAIN stk : stk[t] = << >>

\* C30: whenever no call is in progress, excess_alloc is the sum of
\* total - active over the records in the bigalloc hash table, no record has
\* more active than total bytes, and the records parked in the bigcache are
\* not in the table and do not count.
C30_ExcessIsSum ==
    AllIdle =>
        /\ excess_alloc = ExcessOf(BigInTable)
        /\ \A b \in BigInTable : bigrec[b].active <= bigrec[b].bytes
        /\ BigParked \cap BigInTable = {}

\* A block that realloc shrank in place is in the table with an excess, and
\* another one that was freed after that is parked with its own.
C30_Witness ==
    /\ AllIdle
    /\ excess_alloc > 0
    /\ \E b \in BigInTable : bigrec[b].active < bigrec[b].bytes
    /\ \E b \in BigParked : bigrec[b].active < bigrec[b].bytes

\* C31: every record in the bigalloc hash table has active <= total, both of
\* them positive multiples of PAGE_SIZE; the page-multiple assertions of the
\* excess handler (675-678) never fail.
C31_PageMultiples ==
    /\ ~malloc_panic
    /\ \A b \in BigInTable :
           /\ bigrec[b].active <= bigrec[b].bytes
           /\ bigrec[b].active > 0 /\ bigrec[b].bytes > 0
           /\ bigrec[b].active % PAGE_SIZE = 0
           /\ bigrec[b].bytes % PAGE_SIZE = 0

\* The part of C31 that does not ask for positive sizes.
C31_PageMultiplesOrZero ==
    /\ ~malloc_panic
    /\ \A b \in BigInTable :
           /\ bigrec[b].active <= bigrec[b].bytes
           /\ bigrec[b].active % PAGE_SIZE = 0
           /\ bigrec[b].bytes % PAGE_SIZE = 0

\* The stripe lock of the chain that holds record b.
StripeOf(b) ==
    LET k == CHOOSE c \in DOMAIN bigalloc_array : b \in SeqSet(bigalloc_array[c])
    IN  k % BIGXSIZE

\* Record b stays in the hash table over the step.
StaysInTable(b) == b \in BigInTable /\ b \in BigInTable'

\* A step that changes a record in the table is taken with the stripe lock of
\* its chain held (a process without threads takes no locks, 560-569).
ChangedUnderLock(b) ==
    (bigrec'[b] # bigrec[b] /\ isthreaded) => StripeOf(b) \in DOMAIN locks

\* C32 as stated: while a record is in the bigalloc hash table its base and
\* its total do not change, and active changes only under the stripe lock of
\* its chain.
C32_OnlyActiveChanges ==
    [][\A b \in DOMAIN bigrec :
          StaysInTable(b) =>
              /\ bigrec'[b].base = bigrec[b].base
              /\ bigrec'[b].bytes = bigrec[b].bytes
              /\ ChangedUnderLock(b)]_vars

\* C32, amended: while a record is in the bigalloc hash table its base does
\* not change; active and total change only under the stripe lock of its
\* chain, and total changes only when realloc extends the block in place
\* (total grows, active is the new size) or the excess handler trims it
\* (total becomes active).
C32_BaseNeverChanges ==
    [][\A b \in DOMAIN bigrec :
          StaysInTable(b) =>
              /\ bigrec'[b].base = bigrec[b].base
              /\ ChangedUnderLock(b)
              /\ bigrec'[b].bytes # bigrec[b].bytes =>
                     \/ /\ bigrec'[b].bytes > bigrec[b].bytes
                        /\ bigrec'[b].active > bigrec[b].bytes
                        /\ bigrec'[b].active <= bigrec'[b].bytes
                     \/ /\ bigrec'[b].bytes = bigrec[b].active
                        /\ bigrec'[b].active = bigrec[b].active
                        /\ excess_alloc > 16 * 1024 * 1024]_vars

\* A threaded process holds a block that realloc has extended in place, or
\* one of 36 MiB that realloc has shrunk in place and the excess handler has
\* trimmed during the next malloc (whose block lies behind the old end).
C32_Witness ==
    /\ isthreaded /\ AllIdle
    /\ \E r \in live :
           \E b \in BigInTable :
               /\ bigrec[b].base = r.ptr
               /\ r.op = "realloc"
               /\ \/ bigrec[b].bytes > bigrec[b].active /\ bigrec[b].active = 6 * PAGE_SIZE
                  \/ /\ bigrec[b].bytes = 18 * 1024 * 1024 + PAGE_SIZE
                     /\ \E q \in live : q.op = "malloc" /\ q.ptr >= r.ptr + 36 * 1024 * 1024

\* The frame on top of thread t's stack is at label pc.
TopAt(t, pc) == stk[t] # << >> /\ Head(stk[t]).pc = pc

\* Thread t's top frame returns in this step.
Returns(t) == Len(stk'[t]) = Len(stk[t]) - 1 /\ ~malloc_panic'

\* Every page of [lo, hi) is mapped in M.
Covered(M, lo, hi) ==
    \A k \in 0..((hi - lo) \div PAGE_SIZE - 1) :
        \E r \in M : r.lo <= lo + k * PAGE_SIZE /\ lo + k * PAGE_SIZE < r.hi

\* The records a moving realloc has taken out of the table and not yet freed.
Unlinked ==
    UNION {{stk[t][k].big : k \in {j \in 1..Len(stk[t]) :
                                      stk[t][j].pc \in {"sr_bigmoved", "sr_relock", "sr_relink"}}} :
           t \in DOMAIN stk}

\* The handler returns at once while excess_alloc <= 16 MiB.
HandlerIdle(t) ==
    (TopAt(t, "he_top") /\ excess_alloc <= 16 * 1024 * 1024 /\ stk'[t] # stk[t]) =>
        /\ Returns(t)
        /\ bigrec' = bigrec /\ maps' = maps /\ excess_alloc' = excess_alloc
        /\ bigalloc_array' = bigalloc_array

\* The trim of one chain unmaps each tail, which was mapped until then.
HandlerTrims(t) ==
    (TopAt(t, "he_trim") /\ stk'[t] # stk[t] /\ ~malloc_panic') =>
        \A b \in SeqSet(GetSeq(bigalloc_array, Head(stk[t]).i)) :
            bigrec[b].active < bigrec[b].bytes =>
                /\ Covered(maps, bigrec[b].base + bigrec[b].active,
                           bigrec[b].base + bigrec[b].bytes)
                /\ MapFree(maps', bigrec[b].base + bigrec[b].active,
                           bigrec[b].base + bigrec[b].bytes)
                /\ bigrec'[b].bytes = bigrec[b].active

\* C33 as stated: the handler does nothing while excess_alloc <= 16 MiB; a
\* complete run above 16 MiB, with no other big operation under way, unmaps
\* each tail that was still mapped, leaves every record of the table with
\* total = active, and leaves excess_alloc = 0.
C33_TrimToZero ==
    [][\A t \in DOMAIN stk :
          /\ HandlerIdle(t)
          /\ HandlerTrims(t)
          /\ (TopAt(t, "he_scan") /\ Returns(t)) =>
                /\ \A b \in BigInTable' : bigrec'[b].bytes = bigrec'[b].active
                /\ excess_alloc' = 0]_vars

\* C33, amended: as above, but excess_alloc is left at the excess of the
\* record that the realloc calling the handler (through its allocation of the
\* new block) has unlinked and not yet freed; it is 0 in every other case.
C33_TrimToUnlinked ==
    [][\A t \in DOMAIN stk :
          /\ HandlerIdle(t)
          /\ HandlerTrims(t)
          /\ (TopAt(t, "he_scan") /\ Returns(t)) =>
                /\ \A b \in BigInTable' : bigrec'[b].bytes = bigrec'[b].active
                /\ excess_alloc' = ExcessOf(Unlinked)']_vars

\* The handler has gone through every chain and is about to return; it has
\* trimmed a block down to 18 MiB and a page, and excess_alloc is 0.
C33_Witness ==
    \E t \in DOMAIN stk :
        /\ TopAt(t, "he_scan")
        /\ Head(stk[t]).i > 0
        /\ {k \in DOMAIN bigalloc_array : k >= Head(stk[t]).i} = {}
        /\ excess_alloc = 0
        /\ \E b \in BigInTable :
              /\ bigrec[b].bytes = 18 * 1024 * 1024 + PAGE_SIZE
              /\ bigrec[b].active = bigrec[b].bytes
              /\ MapFree(maps, bigrec[b].base + bigrec[b].bytes,
                         bigrec[b].base + bigrec[b].bytes + PAGE_SIZE)

\* The places of the table's chains that hold record b.
TableRefs(b) ==
    UNION {{<<k, n>> : n \in {m \in 1..Len(bigalloc_array[k]) : bigalloc_array[k][m] = b}} :
           k \in DOMAIN bigalloc_array}

\* The bigcache slots that hold record b.
SlotRefs(b) == {i \in DOMAIN bigcache_array : bigcache_array[i] = b}

\* The frames whose variable big is the only reference to its record: between
\* the claim or creation and the insertion, between the removal and the
\* parking or the release, and while realloc moves the block.
HoldingPcs ==
    { "sa_biglock", "sa_bigins", "mm_lock", "mm_ins", "sf_cache", "sf_cindex", "sf_cswap",
      "sf_bigfree", "sr_bigmoved", "sr_relock", "sr_relink" }

FrameRefs(b) ==
    UNION {{<<t, n>> : n \in {m \in 1..Len(stk[t]) :
                                 stk[t][m].pc \in HoldingPcs /\ stk[t][m].big = b}} :
           t \in DOMAIN stk}

Holders(b) == Cardinality(TableRefs(b)) + Cardinality(SlotRefs(b)) + Cardinality(FrameRefs(b))

\* The step of _slabfree that unmaps a big block finds all of it mapped.
UnmapsMapped(t) ==
    (TopAt(t, "sf_vmfree") /\ stk'[t] # stk[t]) =>
        /\ Covered(maps, Head(stk[t]).ptr, Head(stk[t]).ptr + Head(stk[t]).size)
        /\ MapFree(maps', Head(stk[t]).ptr, Head(stk[t]).ptr + Head(stk[t]).size)

\* C34: under any interleaving of bigcache_find_alloc and bigcache_find_free,
\* each big block has exactly one holder (the hash table, one bigcache slot, or
\* the thread that is allocating or freeing it): no two callers hold the same
\* block, no slot holds a released record, a block displaced from a slot is
\* unmapped once, while all of it is still mapped, and when no call is in
\* progress every record is in the table or in a slot, where a later free or
\* allocation can take it out.
C34_OneHolder ==
    /\ [](/\ \A b \in DOMAIN bigrec : Holders(b) = 1
          /\ \A i \in DOMAIN bigcache_array :
                bigcache_array[i] # NULL => bigcache_array[i] \in DOMAIN bigrec
          /\ \A r, q \in live : (r.ptr = q.ptr /\ r.ptr # NULL) => r = q
          /\ AllIdle => DOMAIN bigrec = BigInTable \cup BigParked)
    /\ [][\A t \in DOMAIN stk : UnmapsMapped(t)]_vars

\* Two frees have raced for one slot: the block parked there is smaller than
\* the slot's size entry, and the block that was displaced has been unmapped.
C34_Witness ==
    /\ AllIdle
    /\ \E i \in DOMAIN bigcache_array :
          /\ bigcache_array[i] # NULL
          /\ bigrec[bigcache_array[i]].bytes < bigcache_size_array[i]
    /\ Cardinality(DOMAIN bigrec) = 1

\* The frames of a big allocation that has its record and is about to insert
\* it into the table.
InsertingPcs == { "sa_biglock", "sa_bigins", "mm_lock", "mm_ins" }

\* The size of a request rounded up to whole pages.
PageRounded(size) == ((size + PAGE_SIZE - 1) \div PAGE_SIZE) * PAGE_SIZE

\* The block in slot i is smaller than the size thread t asks for.
ClaimsTooSmall(t) ==
    /\ TopAt(t, "sa_bcswap")
    /\ stk'[t] # stk[t]
    /\ bigcache_array[Head(stk[t]).i] # NULL
    /\ bigrec[bigcache_array[Head(stk[t]).i]].bytes < Head(stk[t]).size

\* C35: a big allocation never hands out a bigcache block whose total is
\* smaller than the rounded size asked for, even when the size entry it read
\* was stale: the record it inserts, and the record of every block a caller
\* holds, has at least that many bytes, and a reclaimed block that is too
\* small goes to _slabfree while the allocation goes on to _vmem_alloc.
C35_NeverTooSmall ==
    /\ [](/\ \A t \in DOMAIN stk : \A n \in 1..Len(stk[t]) :
                stk[t][n].pc \in InsertingPcs =>
                    /\ bigrec[stk[t][n].big].bytes >= stk[t][n].size
                    /\ bigrec[stk[t][n].big].active = stk[t][n].size
          /\ \A r \in live : \A b \in BigInTable :
                bigrec[b].base = r.ptr => bigrec[b].bytes >= PageRounded(r.size))
    /\ [][\A t \in DOMAIN stk :
             ClaimsTooSmall(t) =>
                 /\ Len(stk'[t]) = Len(stk[t]) + 1
                 /\ stk'[t][1].pc = "sf_cache"
                 /\ stk'[t][1].big = bigcache_array[Head(stk[t]).i]
                 /\ stk'[t][2].pc = "sa_vmem"
                 /\ stk'[t][2].big = NULL
                 /\ bigcache_array'[Head(stk[t]).i] = NULL]_vars

\* An allocation of 7 pages has taken a block of 5 pages out of a slot whose
\* size entry said 7 pages, and is handing it to _slabfree.
C35_Witness ==
    \E t \in DOMAIN stk :
        /\ Len(stk[t]) > 1
        /\ stk[t][1].pc = "sf_cache"
        /\ stk[t][2].pc = "sa_vmem"
        /\ stk[t][2].size = 7 * PAGE_SIZE
        /\ stk[t][1].big \in DOMAIN bigrec
        /\ bigrec[stk[t][1].big].bytes = 5 * PAGE_SIZE

\* Thread t is in mtmagazine_alloc() for an allocation that carries MAGS, and
\* takes a step.
MagsStep(t) ==
    /\ stk[t] # << >>
    /\ Head(stk[t]).pc \in MtMagazineAllocPcs
    /\ "MAGS" \in Head(stk[t]).flags
    /\ stk'[t] # stk[t]

LocksOf(t) == {l \in DOMAIN locks : locks[l] = t}

\* The locks taken in this step.
Acquired == {l \in DOMAIN locks' : l \notin DOMAIN locks}

InAlloc(t) == \E n \in 1..Len(stk[t]) : stk[t][n].pc \in MtMagazineAllocPcs
InFree(t) == \E n \in 1..Len(stk[t]) : stk[t][n].pc \in MtMagazineFreePcs

\* The stagings thread t has under way.
Staging(t) == {n \in 1..Len(stk[t]) : stk[t][n].pc \in {"ma_staged", "mf_staged"}}

TakenFrom(t) ==
    \E zi \in DOMAIN depots :
        /\ depots[zi].full # << >>
        /\ zi \in DOMAIN depots' => depots'[zi].full = << >>
        /\ t \in DOMAIN stk /\ stk'[t] = stk[t]

NoEmptyMagazine(zi) == zi \in DOMAIN depots => depots[zi].empty = << >>

\* Thread t takes the depot step of mtmagazine_free for a class whose depot
\* has no empty magazine.
InstallsNewmag(t) ==
    /\ TopAt(t, "mf_depot")
    /\ NoEmptyMagazine(Head(stk[t]).zi)
    /\ stk'[t] # stk[t]

\* C39: whenever the depot step of the free path finds the depot's empty list
\* empty and installs newmag as the loaded magazine, newmag is not null: the
\* thread arrives at the step with a staged magazine, and the step makes that
\* magazine the loaded one of the class and leaves newmag null.
C39_NewmagStaged ==
    /\ [](\A t \in DOMAIN stk :
            TopAt(t, "mf_dlock") \/ TopAt(t, "mf_depot") => thread_mags[t].newmag # NULL)
    /\ [][\A t \in DOMAIN stk :
            InstallsNewmag(t) =>
                /\ thread_mags[t].newmag # NULL
                /\ thread_mags'[t].newmag = NULL
                /\ thread_mags'[t].mags[Head(stk[t]).zi].loaded = thread_mags[t].newmag
                /\ mag'[thread_mags[t].newmag].objs = << >>]_vars

\* A thread is at the depot step of a free with a staged magazine, the depot
\* has no empty magazine to give, and the class is the one of the magazine
\* objects or another one.
C39_Witness ==
    \E t \in DOMAIN stk :
        /\ TopAt(t, "mf_depot")
        /\ NoEmptyMagazine(Head(stk[t]).zi)
        /\ thread_mags[t].newmag # NULL
        /\ Head(stk[t]).zi = SizeofMagazine \div 512 + 47

\* The records of the table whose block holds the pointer p.
RecordsOf(p) ==
    {b \in BigInTable : bigrec[b].base <= p /\ p < bigrec[b].base + bigrec[b].bytes}

\* C40: for a live big pointer p, malloc_usable_size(p) = base + total - p is
\* changed only by realloc or free of p itself: a step of any call on other
\* pointers leaves the record of p in the table, does not make base + total
\* smaller, and leaves every page of [p, p + usable size) mapped.
C40_UsableSizeStable ==
    [][\A r \in live \cap live' :
          \A b \in RecordsOf(r.ptr) :
              /\ b \in BigInTable'
              /\ bigrec'[b].base = bigrec[b].base
              /\ bigrec'[b].bytes >= bigrec[b].bytes
              /\ Covered(maps, bigrec[b].base, bigrec[b].base + bigrec[b].bytes) =>
                     Covered(maps', bigrec[b].base, bigrec[b].base + bigrec[b].bytes)]_vars

====
